---- MODULE Spec2Model ----
(***************************************************************************)
(* A model of the bJecs world store (src/src/ecs/query.ts, the             *)
(* archetype-indexed WorldImpl), its groups (src/src/ecs/group.ts) and its *)
(* snapshots (src/src/ecs/snapshot.ts).                                    *)
(*                                                                         *)
(* Maps and Sets of the program are functions and sets here; a Map is a    *)
(* function whose DOMAIN is the key set.  Strings are sequences of         *)
(* one-character strings, so that join/split/tonumber are computed.        *)
(* The program is roblox-ts: iterating a Map or a Set visits the keys in   *)
(* an order the program does not control.  An action that iterates draws   *)
(* one order of the entity ids, one of the component ids and one of the    *)
(* group ids, and every loop of that call visits its keys in the drawn     *)
(* order.                                                                  *)
(***************************************************************************)
EXTENDS Integers, Sequences, FiniteSets, TLC

\* ---------------------------------------------------------------- bounds
MaxEntities == 2
NumComponents == 2
MaxVal == 2
MaxGroups == 2
NumGroupComponents == 1
MaxSnapshots == 1
MaxHandlers == 3
MaxObjects == 5
MaxObjectSnapshots == 2
MaxNames == 5
MaxPrefabs == 2
MaxPrefabLen == 1
MaxOverrides == 2
MaxQueries == 2
MaxExcludedLen == 1

EntityIds == 1..MaxEntities
ComponentIds == 1..NumComponents
Values == 1..MaxVal
GroupIds == 1..MaxGroups
GroupComponentIds == 1..NumGroupComponents
SnapshotIds == 1..MaxSnapshots
HandlerIds == 0..(MaxHandlers - 1)
Addresses == 1..MaxObjects
Names == 1..MaxNames

\* ---------------------------------------------------------------- state
VARIABLES
    nextEntityId,        \* WorldImpl.nextEntityId
    entities,            \* WorldImpl.entities
    components,          \* WorldImpl.components: entity -> (component -> value)
    groups,              \* WorldImpl.groups: the groups registered in the world
    entityToGroups,      \* WorldImpl.entityToGroups: entity -> set of groups
    archetypeToEntities, \* WorldImpl.archetypeToEntities: signature -> set of entities
    entityToArchetype,   \* WorldImpl.entityToArchetype: entity -> signature
    nextGroupId,         \* GroupImpl.nextId
    groupEntities,       \* GroupImpl.entities of every group object created
    groupComponents,     \* GroupImpl.components of every group object created
    nextSnapshotId,      \* utils nextId (generateId)
    snapshots,           \* the Snapshot objects returned so far, by id
    observing,           \* whether a handler that records is connected to the world's events
    events,              \* the world events the handler received during the last call, in order
    last,                \* the last call: its operation and what it returned
    returned,            \* history: the ids spawn() has returned
    captured,            \* history: what valid/get answered when a snapshot was taken
    connections,         \* Event.connections of one Event object: the ids connected
    eventNextId,         \* Event.nextId of that object
    disconnects,         \* what each handler connected to it does: the id it disconnects, or -1
    delivered,           \* the handlers its last fire invoked, in order
    objects,             \* the tables used as component values: address -> the number in the table
    objectTable,         \* one entity's state and, for one component, the address its own table holds
    known,               \* the addresses the caller of the world holds
    objectSnapshots,     \* the snapshots of that entity: what entityStates holds for it
    componentRegistry,   \* componentRegistry: name -> id
    nextComponentId,     \* nextComponentId
    prefabs,             \* the Prefab objects created so far: Prefab.components of each
    queries              \* the query objects created so far: the required and excluded arrays of each

vars == <<nextEntityId, entities, components, groups, entityToGroups,
          archetypeToEntities, entityToArchetype, nextGroupId, groupEntities,
          groupComponents, nextSnapshotId, snapshots, observing, events, last,
          returned, captured, connections, eventNextId, disconnects, delivered,
          objects, objectTable, known, objectSnapshots,
          componentRegistry, nextComponentId, prefabs, queries>>

worldVars == <<nextEntityId, entities, components, entityToGroups,
               archetypeToEntities, entityToArchetype>>
groupVars == <<groups, nextGroupId, groupEntities, groupComponents>>
eventVars == <<connections, eventNextId, disconnects, delivered>>
objectVars == <<objects, objectTable, known, objectSnapshots>>
registryVars == <<componentRegistry, nextComponentId>>

\* The handlers: no call on the world or on a group connects or disconnects one.
handlerVars == <<observing, eventVars>>
snapVars == <<nextSnapshotId, snapshots, captured, handlerVars, objectVars, registryVars, prefabs, queries>>

\* ---------------------------------------------------------------- maps
EmptyMap == [k \in {} |-> 0]

MapSet(m, k, v) == [x \in (DOMAIN m) \cup {k} |-> IF x = k THEN v ELSE m[x]]

MapDelete(m, k) == [x \in (DOMAIN m) \ {k} |-> m[x]]

\* The orders in which a loop may visit a set of keys.
Orders(S) == {p \in [1..Cardinality(S) -> S] : \A i, j \in 1..Cardinality(S) : p[i] = p[j] => i = j}

\* The keys of S in the order of the drawn order p.
Visit(S, p) == SelectSeq(p, LAMBDA x : x \in S)

\* ---------------------------------------------------------------- strings
Digits == <<"0", "1", "2", "3", "4", "5", "6", "7", "8", "9">>

RECURSIVE tostring(_)
tostring(n) == IF n < 10 THEN <<Digits[n + 1]>> ELSE tostring(n \div 10) \o <<Digits[(n % 10) + 1]>>

IsDigit(ch) == \E i \in 1..10 : Digits[i] = ch

DigitValue(ch) == (CHOOSE i \in 1..10 : Digits[i] = ch) - 1

RECURSIVE ParseDigits(_, _)
ParseDigits(s, acc) == IF s = <<>> THEN acc ELSE ParseDigits(Tail(s), acc * 10 + DigitValue(Head(s)))

\* tonumber(id) || 0 : a string that is no number gives 0.
tonumberOr0(s) == IF s # <<>> /\ (\A i \in 1..Len(s) : IsDigit(s[i])) THEN ParseDigits(s, 0) ELSE 0

RECURSIVE join(_)
join(parts) ==
    IF parts = <<>> THEN <<>>
    ELSE IF Len(parts) = 1 THEN parts[1]
    ELSE parts[1] \o <<"|">> \o join(Tail(parts))

RECURSIVE split(_, _)
split(s, cur) ==
    IF s = <<>> THEN <<cur>>
    ELSE IF Head(s) = "|" THEN <<cur>> \o split(Tail(s), <<>>)
    ELSE split(Tail(s), Append(cur, Head(s)))

\* ---------------------------------------------------------------- archetypes
Swap(a, i, j) == [a EXCEPT ![i] = a[j], ![j] = a[i]]

RECURSIVE SortInner(_, _, _)
SortInner(a, i, j) ==
    IF j > Len(a) THEN a
    ELSE SortInner(IF a[i] > a[j] THEN Swap(a, i, j) ELSE a, i, j + 1)

RECURSIVE SortOuter(_, _)
SortOuter(a, i) ==
    IF i > Len(a) - 1 THEN a
    ELSE SortOuter(SortInner(a, i, i + 1), i + 1)

\* generateArchetypeSignature: the ids in the order the Set gives them, sorted
\* by the manual exchange sort, joined by '|'.
generateArchetypeSignature(comps) ==
    LET componentArray == CHOOSE p \in Orders(comps) : TRUE
        sorted == SortOuter(componentArray, 1)
    IN join([i \in 1..Len(sorted) |-> tostring(sorted[i])])

\* archetype[0].split('|').map(tonumber(id) || 0).filter(id > 0)
archetypeComponents(sig) ==
    LET parts == split(sig, <<>>)
        nums == [i \in 1..Len(parts) |-> tonumberOr0(parts[i])]
    IN SelectSeq(nums, LAMBDA id : id > 0)

Includes(seq, x) == \E i \in 1..Len(seq) : seq[i] = x

\* An old bucket that keeps the entity.
LeaveBucketKeeps(a2e, old, entity) == a2e

\* The old bucket loses the entity and is deleted when it became empty.
LeaveBucket(a2e, old, entity) ==
    IF old \in DOMAIN a2e
    THEN IF a2e[old] \ {entity} = {}
         THEN MapDelete(a2e, old)
         ELSE [a2e EXCEPT ![old] = @ \ {entity}]
    ELSE a2e

\* updateEntityArchetype(entity), given the component tables as they are now:
\* the two archetype maps after it.
updateEntityArchetype(comps, a2e, e2a, entity) ==
    LET hasOld == entity \in DOMAIN e2a
    IN IF entity \notin DOMAIN comps \/ DOMAIN comps[entity] = {}
       THEN IF hasOld
            THEN [a2e |-> LeaveBucket(a2e, e2a[entity], entity), e2a |-> MapDelete(e2a, entity)]
            ELSE [a2e |-> a2e, e2a |-> e2a]
       ELSE LET newArchetype == generateArchetypeSignature(DOMAIN comps[entity])
            IN IF hasOld /\ e2a[entity] = newArchetype
               THEN [a2e |-> a2e, e2a |-> e2a]
               ELSE LET left == IF hasOld THEN LeaveBucket(a2e, e2a[entity], entity) ELSE a2e
                        bucket == IF newArchetype \in DOMAIN left THEN left[newArchetype] ELSE {}
                    IN [a2e |-> MapSet(left, newArchetype, bucket \cup {entity}),
                        e2a |-> MapSet(e2a, entity, newArchetype)]

\* ---------------------------------------------------------------- events and calls
Event(type, entity, arg) == [type |-> type, entity |-> entity, arg |-> arg]

EntitySpawned(e) == Event("EntitySpawned", e, e)
EntityDespawned(e) == Event("EntityDespawned", e, e)
ComponentAdded(e, c) == Event("ComponentAdded", e, c)
ComponentRemoved(e, c) == Event("ComponentRemoved", e, c)
EntityAddedToGroup(e, g) == Event("EntityAddedToGroup", e, g)
EntityRemovedFromGroup(e, g) == Event("EntityRemovedFromGroup", e, g)

\* Event.fire: the connected handlers run; with none connected nothing is
\* received.
Fire(evs) == IF observing THEN evs ELSE <<>>

\* The operation of a call and what it returned: "void", "true", "false",
\* "error" (the call raised an error) or "id" (a fresh id or object).
Call(op, ret) == [op |-> op, ret |-> ret, snap |-> 0]

\* A call of revert, with the id of the snapshot it was given.
CallRevert(s) == [op |-> "revert", ret |-> "void", snap |-> s]

\* ---------------------------------------------------------------- initial state
Created ==
    /\ nextEntityId = 1
    /\ entities = {}
    /\ components = EmptyMap
    /\ groups = {}
    /\ entityToGroups = EmptyMap
    /\ archetypeToEntities = EmptyMap
    /\ entityToArchetype = EmptyMap
    /\ nextGroupId = 1
    /\ groupEntities = EmptyMap
    /\ groupComponents = EmptyMap
    /\ nextSnapshotId = 1
    /\ snapshots = EmptyMap
    /\ events = <<>>
    /\ last = Call("new", "void")
    /\ returned = {}
    /\ captured = EmptyMap
    /\ connections = {}
    /\ eventNextId = 0
    /\ disconnects = EmptyMap
    /\ delivered = <<>>
    /\ objects = EmptyMap
    /\ objectTable = [state |-> "new", ref |-> 0]
    /\ known = {}
    /\ objectSnapshots = <<>>
    /\ componentRegistry = EmptyMap
    /\ nextComponentId = 1
    /\ prefabs = <<>>
    /\ queries = <<>>

\* A new world; nothing is connected to its events.
Init == Created /\ observing = FALSE

\* A new world whose six events have a recording handler connected.
InitObserved == Created /\ observing = TRUE

\* ---------------------------------------------------------------- world: entities
valid(entity) == entity \in entities

\* A spawn that hands out the smallest id that is not live.
SpawnReuse ==
    /\ \E e \in EntityIds : e \notin entities
    /\ LET entity == CHOOSE e \in EntityIds :
                         e \notin entities /\ \A f \in EntityIds \ entities : e <= f
       IN /\ nextEntityId' = IF entity >= nextEntityId THEN entity + 1 ELSE nextEntityId
          /\ entities' = entities \cup {entity}
          /\ components' = MapSet(components, entity, EmptyMap)
          /\ events' = Fire(<<EntitySpawned(entity)>>)
          /\ last' = Call("spawn", "id")
          /\ returned' = returned \cup {entity}
    /\ UNCHANGED <<entityToGroups, archetypeToEntities, entityToArchetype>>
    /\ UNCHANGED <<groupVars, snapVars>>

\* spawn()
Spawn ==
    /\ nextEntityId <= MaxEntities
    /\ LET entity == nextEntityId
       IN /\ nextEntityId' = nextEntityId + 1
          /\ entities' = entities \cup {entity}
          /\ components' = MapSet(components, entity, EmptyMap)
          /\ events' = Fire(<<EntitySpawned(entity)>>)
          /\ last' = Call("spawn", "id")
          /\ returned' = returned \cup {entity}
    /\ UNCHANGED <<entityToGroups, archetypeToEntities, entityToArchetype>>
    /\ UNCHANGED <<groupVars, snapVars>>

\* A set that gives an entity that is not live a table instead of failing.
SetUpserts(entity, component, value) ==
    LET table == IF entity \in DOMAIN components THEN components[entity] ELSE EmptyMap
        had == component \in DOMAIN table
        comps == MapSet(components, entity, MapSet(table, component, value))
        arch == updateEntityArchetype(comps, archetypeToEntities, entityToArchetype, entity)
    IN /\ last' = Call("set", "void")
       /\ entities' = entities \cup {entity}
       /\ components' = comps
       /\ archetypeToEntities' = arch.a2e
       /\ entityToArchetype' = arch.e2a
       /\ events' = Fire(IF had THEN <<>> ELSE <<ComponentAdded(entity, component)>>)
       /\ UNCHANGED <<nextEntityId, entityToGroups>>
       /\ UNCHANGED <<groupVars, snapVars, returned>>

\* A set that fires ComponentAdded on every call.
SetAlwaysFires(entity, component, value) ==
    /\ last' = Call("set", IF valid(entity) THEN "void" ELSE "error")
    /\ IF ~valid(entity)
       THEN /\ events' = <<>>
            /\ UNCHANGED <<worldVars, groupVars, snapVars, returned>>
       ELSE LET comps == [components EXCEPT ![entity] = MapSet(@, component, value)]
                arch == updateEntityArchetype(comps, archetypeToEntities, entityToArchetype, entity)
            IN /\ components' = comps
               /\ archetypeToEntities' = arch.a2e
               /\ entityToArchetype' = arch.e2a
               /\ events' = Fire(<<ComponentAdded(entity, component)>>)
               /\ UNCHANGED <<nextEntityId, entities, entityToGroups>>
               /\ UNCHANGED <<groupVars, snapVars, returned>>

\* set(entity, component, value)
Set(entity, component, value) ==
    /\ last' = Call("set", IF valid(entity) THEN "void" ELSE "error")
    /\ IF ~valid(entity) \/ entity \notin DOMAIN components
       THEN /\ events' = <<>>
            /\ UNCHANGED <<worldVars, groupVars, snapVars, returned>>
       ELSE LET had == component \in DOMAIN components[entity]
                comps == [components EXCEPT ![entity] = MapSet(@, component, value)]
                arch == updateEntityArchetype(comps, archetypeToEntities, entityToArchetype, entity)
            IN /\ components' = comps
               /\ archetypeToEntities' = arch.a2e
               /\ entityToArchetype' = arch.e2a
               /\ events' = Fire(IF had THEN <<>> ELSE <<ComponentAdded(entity, component)>>)
               /\ UNCHANGED <<nextEntityId, entities, entityToGroups>>
               /\ UNCHANGED <<groupVars, snapVars, returned>>

\* A remove that leaves the archetype index as it is.
RemoveNoMigrate(entity, component) ==
    LET absent == \/ ~valid(entity)
                  \/ entity \notin DOMAIN components
                  \/ component \notin DOMAIN components[entity]
    IN
    /\ last' = Call("remove", IF absent THEN "false" ELSE "true")
    /\ IF absent
       THEN /\ events' = <<>>
            /\ UNCHANGED <<worldVars, groupVars, snapVars, returned>>
       ELSE /\ components' = [components EXCEPT ![entity] = MapDelete(@, component)]
            /\ events' = Fire(<<ComponentRemoved(entity, component)>>)
            /\ UNCHANGED <<nextEntityId, entities, entityToGroups>>
            /\ UNCHANGED <<archetypeToEntities, entityToArchetype>>
            /\ UNCHANGED <<groupVars, snapVars, returned>>

\* remove(entity, component)
Remove(entity, component) ==
    LET absent == \/ ~valid(entity)
                  \/ entity \notin DOMAIN components
                  \/ component \notin DOMAIN components[entity]
    IN
    /\ last' = Call("remove", IF absent THEN "false" ELSE "true")
    /\ IF absent
       THEN /\ events' = <<>>
            /\ UNCHANGED <<worldVars, groupVars, snapVars, returned>>
       ELSE LET comps == [components EXCEPT ![entity] = MapDelete(@, component)]
                arch == updateEntityArchetype(comps, archetypeToEntities, entityToArchetype, entity)
            IN /\ components' = comps
               /\ archetypeToEntities' = arch.a2e
               /\ entityToArchetype' = arch.e2a
               /\ events' = Fire(<<ComponentRemoved(entity, component)>>)
               /\ UNCHANGED <<nextEntityId, entities, entityToGroups>>
               /\ UNCHANGED <<groupVars, snapVars, returned>>

\* ---------------------------------------------------------------- groups
\* The world's handler of group.onEntityAdded (connected by createGroup).
onEntityAdded(st, group, entity) ==
    LET had == IF entity \in DOMAIN st.e2g THEN st.e2g[entity] ELSE {}
    IN [st EXCEPT !.e2g = MapSet(st.e2g, entity, had \cup {group}),
                  !.ev = Append(st.ev, EntityAddedToGroup(entity, group))]

\* A handler of group.onEntityRemoved that leaves the reverse index alone.
onEntityRemovedForgets(st, group, entity) ==
    [st EXCEPT !.ev = Append(st.ev, EntityRemovedFromGroup(entity, group))]

\* The world's handler of group.onEntityRemoved (connected by createGroup).
onEntityRemoved(st, group, entity) ==
    LET e2g == IF entity \in DOMAIN st.e2g
               THEN IF st.e2g[entity] \ {group} = {}
                    THEN MapDelete(st.e2g, entity)
                    ELSE [st.e2g EXCEPT ![entity] = @ \ {group}]
               ELSE st.e2g
    IN [st EXCEPT !.e2g = e2g,
                  !.ev = Append(st.ev, EntityRemovedFromGroup(entity, group))]

\* An addEntity that does not ask whether the entity is a member already.
addEntityAlways(st, group, entity) ==
    onEntityAdded([st EXCEPT !.ge[group] = @ \cup {entity}], group, entity)

\* GroupImpl.addEntity
addEntity(st, group, entity) ==
    IF entity \notin st.ge[group]
    THEN onEntityAdded([st EXCEPT !.ge[group] = @ \cup {entity}], group, entity)
    ELSE st

\* GroupImpl.removeEntity
removeEntity(st, group, entity) ==
    IF entity \in st.ge[group]
    THEN onEntityRemoved([st EXCEPT !.ge[group] = @ \ {entity}], group, entity)
    ELSE st

\* The part of the state that despawn, revert and the group calls thread
\* through their loops.
World ==
    [entities |-> entities, components |-> components, e2g |-> entityToGroups,
     ge |-> groupEntities, ev |-> <<>>, stop |-> FALSE]

Becomes(w) ==
    /\ entities' = w.entities
    /\ components' = w.components
    /\ entityToGroups' = w.e2g
    /\ groupEntities' = w.ge
    /\ events' = Fire(w.ev)

\* ---------------------------------------------------------------- despawn
\* The loop of despawn over the groups of the entity.
RECURSIVE DespawnGroups(_, _, _)
DespawnGroups(st, gs, entity) ==
    IF gs = <<>> THEN st
    ELSE LET removed == removeEntity(st, Head(gs), entity)
             fired == [removed EXCEPT !.ev = Append(@, EntityRemovedFromGroup(entity, Head(gs)))]
         IN DespawnGroups(fired, Tail(gs), entity)

despawnReturns(st, entity) == entity \in st.entities /\ entity \in DOMAIN st.components

\* A despawn that leaves the component table of the entity in the map.
despawnKeepsTable(st, entity, go, co) ==
    IF entity \notin st.entities THEN st
    ELSE [st EXCEPT !.entities = @ \ {entity},
                    !.ev = Append(@, EntityDespawned(entity))]

\* despawn(entity); go and co are the orders in which groups and components
\* are visited.
despawn(st, entity, go, co) ==
    IF entity \notin st.entities THEN st
    ELSE LET detached ==
                 IF entity \in DOMAIN st.e2g
                 THEN LET after == DespawnGroups(st, Visit(st.e2g[entity], go), entity)
                      IN [after EXCEPT !.e2g = MapDelete(@, entity)]
                 ELSE st
         IN IF entity \notin DOMAIN detached.components THEN detached
            ELSE LET cs == Visit(DOMAIN detached.components[entity], co)
                     removedEvents == [i \in 1..Len(cs) |-> ComponentRemoved(entity, cs[i])]
                 IN [detached EXCEPT
                        !.entities = @ \ {entity},
                        !.components = MapDelete(@, entity),
                        !.ev = (@ \o removedEvents) \o <<EntityDespawned(entity)>>]

OwnKeys(entity) == IF entity \in DOMAIN components THEN DOMAIN components[entity] ELSE {}

GroupsOf(entity) == IF entity \in DOMAIN entityToGroups THEN entityToGroups[entity] ELSE {}

Despawn(entity) ==
    /\ last' = Call("despawn", IF despawnReturns(World, entity) THEN "true" ELSE "false")
    /\ \E go \in Orders(GroupsOf(entity)), co \in Orders(OwnKeys(entity)) :
        /\ Becomes(despawn(World, entity, go, co))
        /\ UNCHANGED <<nextEntityId, archetypeToEntities, entityToArchetype>>
        /\ UNCHANGED <<groups, nextGroupId, groupComponents, snapVars, returned>>

\* getGroupsForEntity(entity)
getGroupsForEntity(entity) == GroupsOf(entity)

\* getGroupsWithComponent(component)
getGroupsWithComponent(component) ==
    {group \in groups : component \in DOMAIN groupComponents[group]}

\* ---------------------------------------------------------------- get / has
Found(v) == [found |-> TRUE, value |-> v]
NotFound == [found |-> FALSE, value |-> 0]

OwnHas(entity, component) ==
    entity \in DOMAIN components /\ component \in DOMAIN components[entity]

\* A get that does not ask whether the entity is live.
getUnchecked(entity, component) ==
    IF OwnHas(entity, component) THEN {Found(components[entity][component])}
    ELSE LET having == {g \in GroupsOf(entity) : component \in DOMAIN groupComponents[g]}
         IN IF having = {} THEN {NotFound}
            ELSE {Found(groupComponents[g][component]) : g \in having}

\* A get that asks the groups before the own table.
getGroupFirst(entity, component) ==
    IF ~valid(entity) THEN {NotFound}
    ELSE LET having == {g \in GroupsOf(entity) : component \in DOMAIN groupComponents[g]}
         IN IF having # {} THEN {Found(groupComponents[g][component]) : g \in having}
            ELSE IF OwnHas(entity, component) THEN {Found(components[entity][component])}
            ELSE {NotFound}

\* A has that asks the own table only.
hasOwnOnly(entity, component) == valid(entity) /\ OwnHas(entity, component)

\* A get that asks the own table only.
getOwnOnly(entity, component) ==
    IF ~valid(entity) THEN {NotFound}
    ELSE IF OwnHas(entity, component) THEN {Found(components[entity][component])}
    ELSE {NotFound}

\* get(entity, component): every value the call can return.  The groups of
\* the entity are visited in an order the program does not control and the
\* first group that has the component answers.
get(entity, component) ==
    IF ~valid(entity) THEN {NotFound}
    ELSE IF OwnHas(entity, component) THEN {Found(components[entity][component])}
    ELSE LET having == {g \in GroupsOf(entity) : component \in DOMAIN groupComponents[g]}
         IN IF having = {} THEN {NotFound}
            ELSE {Found(groupComponents[g][component]) : g \in having}

\* has(entity, component)
has(entity, component) ==
    IF ~valid(entity) THEN FALSE
    ELSE IF OwnHas(entity, component) THEN TRUE
    ELSE \E g \in GroupsOf(entity) : component \in DOMAIN groupComponents[g]

\* ---------------------------------------------------------------- world: groups
CreatedGroups == 1..(nextGroupId - 1)

\* createGroup()
CreateGroup ==
    /\ nextGroupId <= MaxGroups
    /\ LET group == nextGroupId
       IN /\ nextGroupId' = nextGroupId + 1
          /\ groups' = groups \cup {group}
          /\ groupEntities' = MapSet(groupEntities, group, {})
          /\ groupComponents' = MapSet(groupComponents, group, EmptyMap)
          /\ last' = Call("createGroup", "id")
    /\ events' = <<>>
    /\ UNCHANGED <<worldVars, snapVars, returned>>

\* A loop that ends after the first member.
RemoveFirstMember(st, es, group) ==
    IF es = <<>> THEN st ELSE removeEntity(st, group, Head(es))

\* The loop of removeGroup over group.getEntities().
RECURSIVE RemoveMembers(_, _, _)
RemoveMembers(st, es, group) ==
    IF es = <<>> THEN st
    ELSE RemoveMembers(removeEntity(st, group, Head(es)), Tail(es), group)

\* removeGroup(group)
RemoveGroup(group) ==
    /\ group \in CreatedGroups
    /\ IF group \notin groups
       THEN /\ events' = <<>>
            /\ UNCHANGED <<entities, components, entityToGroups, groupEntities, groups>>
       ELSE \E eo \in Orders(groupEntities[group]) :
                /\ Becomes(RemoveMembers(World, Visit(groupEntities[group], eo), group))
                /\ groups' = groups \ {group}
    /\ last' = Call("removeGroup", "void")
    /\ UNCHANGED <<nextEntityId, archetypeToEntities, entityToArchetype>>
    /\ UNCHANGED <<nextGroupId, groupComponents, snapVars, returned>>

\* group.addEntity(entity)
GroupAddEntity(group, entity) ==
    /\ group \in CreatedGroups
    /\ Becomes(addEntity(World, group, entity))
    /\ last' = Call("group.addEntity", "void")
    /\ UNCHANGED <<nextEntityId, archetypeToEntities, entityToArchetype>>
    /\ UNCHANGED <<groups, nextGroupId, groupComponents, snapVars, returned>>

\* group.removeEntity(entity)
GroupRemoveEntity(group, entity) ==
    /\ group \in CreatedGroups
    /\ Becomes(removeEntity(World, group, entity))
    /\ last' = Call("group.removeEntity", "void")
    /\ UNCHANGED <<nextEntityId, archetypeToEntities, entityToArchetype>>
    /\ UNCHANGED <<groups, nextGroupId, groupComponents, snapVars, returned>>

\* group.set(component, value)
GroupSet(group, component, value) ==
    /\ group \in CreatedGroups
    /\ groupComponents' = [groupComponents EXCEPT ![group] = MapSet(@, component, value)]
    /\ events' = <<>>
    /\ last' = Call("group.set", "void")
    /\ UNCHANGED <<worldVars, groups, nextGroupId, groupEntities, snapVars, returned>>

\* group.remove(component)
GroupRemove(group, component) ==
    /\ group \in CreatedGroups
    /\ groupComponents' = [groupComponents EXCEPT ![group] = MapDelete(@, component)]
    /\ events' = <<>>
    /\ last' = Call("group.remove", IF component \in DOMAIN groupComponents[group] THEN "true" ELSE "false")
    /\ UNCHANGED <<worldVars, groups, nextGroupId, groupEntities, snapVars, returned>>

\* ---------------------------------------------------------------- snapshots
\* HttpService JSONEncode / JSONDecode of a component value (a number).
JSONEncode(v) == tostring(v)
JSONDecode(s) == ParseDigits(s, 0)

deepClone(obj) == JSONDecode(JSONEncode(obj))

\* The optional argument of snapshot(): not given, or a list of component ids.
NoFilter == [given |-> FALSE, ids |-> <<>>]
Filter(ids) == [given |-> TRUE, ids |-> ids]

\* A stored table that holds every component, filter or not.
clonedWholeTable(comps, filter) == [id \in DOMAIN comps |-> deepClone(comps[id])]

\* The table createSnapshot stores for one entity.
clonedTable(comps, filter) ==
    IF filter.given /\ Len(filter.ids) > 0
    THEN LET kept == {filter.ids[i] : i \in 1..Len(filter.ids)} \cap DOMAIN comps
         IN [id \in kept |-> deepClone(comps[id])]
    ELSE [id \in DOMAIN comps |-> deepClone(comps[id])]

\* With a filter, an entity with none of the listed components is left out.
capturesEntity(comps, filter) ==
    IF filter.given /\ Len(filter.ids) > 0
    THEN DOMAIN clonedTable(comps, filter) # {}
    ELSE TRUE

\* createSnapshot(entities, componentsMap, components)
createSnapshot(id, ents, componentsMap, filter) ==
    LET kept == {e \in ents : capturesEntity(componentsMap[e], filter)}
    IN [id |-> id,
        entityStates |-> [e \in kept |-> clonedTable(componentsMap[e], filter)],
        components |-> filter]

\* What valid, the own tables, has and get answer now.
Observation ==
    [valid |-> entities,
     own |-> components,
     has |-> [e \in EntityIds |-> {c \in ComponentIds : has(e, c)}],
     get |-> [e \in EntityIds |-> [c \in ComponentIds |-> get(e, c)]]]

\* The filters snapshot() is called with.
Filters ==
    {NoFilter, Filter(<<>>)}
        \cup {Filter(<<c>>) : c \in ComponentIds}
        \cup {Filter(<<p[1], p[2]>>) : p \in {q \in ComponentIds \X ComponentIds : q[1] < q[2]}}

\* One full and one partial call.
RevertFilters == {NoFilter, Filter(<<1>>)}

\* snapshot(components?)
Snapshot(filter) ==
    /\ nextSnapshotId <= MaxSnapshots
    /\ LET id == nextSnapshotId
       IN /\ nextSnapshotId' = nextSnapshotId + 1
          /\ snapshots' = MapSet(snapshots, id, createSnapshot(id, entities, components, filter))
          /\ captured' = MapSet(captured, id, Observation)
          /\ last' = Call("snapshot", "id")
    /\ events' = <<>>
    /\ UNCHANGED <<worldVars, groupVars, returned, handlerVars, objectVars, registryVars, prefabs, queries>>

\* ---------------------------------------------------------------- revert
isPartialNever(snapshot) == FALSE

isPartial(snapshot) == snapshot.components.given /\ Len(snapshot.components.ids) > 0

\* A first loop that deletes the entities the snapshot lacks and their
\* tables and leaves the groups alone.
RECURSIVE RevertDespawnNoDetach(_, _, _, _, _)
RevertDespawnNoDetach(st, es, snapshot, go, co) ==
    IF es = <<>> THEN st
    ELSE RevertDespawnNoDetach(
             IF Head(es) \notin DOMAIN snapshot.entityStates
             THEN [st EXCEPT !.entities = @ \ {Head(es)},
                             !.components = MapDelete(@, Head(es)),
                             !.ev = Append(@, EntityDespawned(Head(es)))]
             ELSE st,
             Tail(es), snapshot, go, co)

\* The first loop of revert: despawn the live entities the snapshot lacks.
RECURSIVE RevertDespawn(_, _, _, _, _)
RevertDespawn(st, es, snapshot, go, co) ==
    IF es = <<>> THEN st
    ELSE RevertDespawn(
             IF Head(es) \notin DOMAIN snapshot.entityStates
             THEN despawn(st, Head(es), go, co)
             ELSE st,
             Tail(es), snapshot, go, co)

\* A revert that leaves the components the snapshot lacks in place.
RevertDeleteNothing(st, entity, ids, snapshotComps) == st

\* A revert whose delete loop ends after the first component it deletes.
RevertDeleteFirstOnly(st, entity, ids, snapshotComps) ==
    LET unlisted == SelectSeq(ids, LAMBDA id : id \notin DOMAIN snapshotComps)
    IN IF unlisted = <<>> THEN st
       ELSE [st EXCEPT !.components[entity] = MapDelete(@, Head(unlisted)),
                       !.ev = Append(@, ComponentRemoved(entity, Head(unlisted)))]

\* for (const [id] of currentComps) if (!snapshotComps.has(id)) delete, fire
RECURSIVE RevertDelete(_, _, _, _)
RevertDelete(st, entity, ids, snapshotComps) ==
    IF ids = <<>> THEN st
    ELSE RevertDelete(
             IF Head(ids) \notin DOMAIN snapshotComps
             THEN [st EXCEPT !.components[entity] = MapDelete(@, Head(ids)),
                             !.ev = Append(@, ComponentRemoved(entity, Head(ids)))]
             ELSE st,
             entity, Tail(ids), snapshotComps)

\* A restore loop that fires ComponentAdded only for a component the
\* entity did not have.
RECURSIVE RevertRestoreQuiet(_, _, _, _, _)
RevertRestoreQuiet(st, entity, ids, snapshotComps, snapshot) ==
    IF ids = <<>> THEN st
    ELSE RevertRestoreQuiet(
             [st EXCEPT !.components[entity] = MapSet(@, Head(ids), deepClone(snapshotComps[Head(ids)])),
                        !.ev = IF Head(ids) \in DOMAIN st.components[entity]
                               THEN @ ELSE Append(@, ComponentAdded(entity, Head(ids)))],
             entity, Tail(ids), snapshotComps, snapshot)

\* for (const [id, val] of snapshotComps) set a clone, fire
RECURSIVE RevertRestore(_, _, _, _, _)
RevertRestore(st, entity, ids, snapshotComps, snapshot) ==
    IF ids = <<>> THEN st
    ELSE RevertRestore(
             IF ~isPartial(snapshot) \/ ~snapshot.components.given
                \/ Includes(snapshot.components.ids, Head(ids))
             THEN [st EXCEPT !.components[entity] = MapSet(@, Head(ids), deepClone(snapshotComps[Head(ids)])),
                             !.ev = Append(@, ComponentAdded(entity, Head(ids)))]
             ELSE st,
             entity, Tail(ids), snapshotComps, snapshot)

\* A loop body that resurrects a captured entity whatever its captured
\* table holds.
RevertEntityResurrectsAll(st, entity, snapshot, co) ==
    LET snapshotComps == snapshot.entityStates[entity]
        spawned ==
            IF entity \notin st.entities
            THEN [st EXCEPT !.entities = @ \cup {entity},
                            !.components = MapSet(@, entity, EmptyMap),
                            !.ev = Append(@, EntitySpawned(entity))]
            ELSE st
        deleted ==
            IF ~isPartial(snapshot)
            THEN RevertDelete(spawned, entity,
                     Visit(DOMAIN spawned.components[entity], co), snapshotComps)
            ELSE spawned
    IN RevertRestore(deleted, entity, Visit(DOMAIN snapshotComps, co), snapshotComps, snapshot)

\* The body of the second loop of revert, for one captured entity.
RevertEntity(st, entity, snapshot, co) ==
    LET snapshotComps == snapshot.entityStates[entity]
        absent == entity \notin st.entities
    IN IF absent /\ DOMAIN snapshotComps = {} THEN st
       ELSE LET spawned ==
                    IF absent
                    THEN [st EXCEPT !.entities = @ \cup {entity},
                                    !.components = MapSet(@, entity, EmptyMap),
                                    !.ev = Append(@, EntitySpawned(entity))]
                    ELSE st
            IN IF entity \notin DOMAIN spawned.components
               THEN [spawned EXCEPT !.stop = TRUE]
               ELSE LET deleted ==
                            IF ~isPartial(snapshot)
                            THEN RevertDelete(spawned, entity,
                                     Visit(DOMAIN spawned.components[entity], co), snapshotComps)
                            ELSE spawned
                    IN RevertRestore(deleted, entity, Visit(DOMAIN snapshotComps, co),
                                     snapshotComps, snapshot)

RECURSIVE RevertEntities(_, _, _, _)
RevertEntities(st, es, snapshot, co) ==
    IF es = <<>> \/ st.stop THEN st
    ELSE RevertEntities(RevertEntity(st, Head(es), snapshot, co), Tail(es), snapshot, co)

\* revert(snapshot); eo, go and co are the orders in which entities, groups
\* and components are visited.
revert(st, snapshot, eo, go, co) ==
    LET despawned ==
            IF ~isPartial(snapshot)
            THEN RevertDespawn(st, Visit(st.entities, eo), snapshot, go, co)
            ELSE st
    IN RevertEntities(despawned, Visit(DOMAIN snapshot.entityStates, eo), snapshot, co)

Revert(s) ==
    /\ s \in DOMAIN snapshots
    /\ last' = CallRevert(s)
    /\ \E eo \in Orders(entities \cup DOMAIN snapshots[s].entityStates),
          go \in Orders(UNION {GroupsOf(e) : e \in entities}),
          co \in Orders(ComponentIds) :
           Becomes(revert(World, snapshots[s], eo, go, co))
    /\ UNCHANGED <<nextEntityId, archetypeToEntities, entityToArchetype>>
    /\ UNCHANGED <<groups, nextGroupId, groupComponents, snapVars, returned>>

\* ---------------------------------------------------------------- Event
\* What is left alone by the calls on an Event object of its own.
storeVars == <<worldVars, groupVars, nextSnapshotId, snapshots, captured,
               observing, events, last, returned, registryVars, prefabs, queries>>

\* connect(callback); the callback disconnects the connection target when
\* it is called, or nothing when target is -1.
EventConnect(target) ==
    /\ eventNextId < MaxHandlers
    /\ LET id == eventNextId
       IN /\ eventNextId' = eventNextId + 1
          /\ connections' = connections \cup {id}
          /\ disconnects' = MapSet(disconnects, id, target)
    /\ UNCHANGED <<delivered, storeVars, objectVars>>

\* Disconnect() of the connection id, called outside a fire.
EventDisconnect(id) ==
    /\ id \in DOMAIN disconnects
    /\ connections' = connections \ {id}
    /\ UNCHANGED <<eventNextId, disconnects, delivered, storeVars, objectVars>>

\* A fire that ends when a handler has disconnected a connection.
RECURSIVE fireUntilDisconnect(_, _, _)
fireUntilDisconnect(order, conns, done) ==
    IF order = <<>> THEN [connections |-> conns, delivered |-> done]
    ELSE IF Head(order) \notin conns THEN fireUntilDisconnect(Tail(order), conns, done)
    ELSE IF disconnects[Head(order)] \in conns
    THEN [connections |-> conns \ {disconnects[Head(order)]},
          delivered |-> Append(done, Head(order))]
    ELSE fireUntilDisconnect(Tail(order), conns, Append(done, Head(order)))

\* fire(...args): connections.forEach(cb) visits the keys of the map in the
\* given order; a key deleted before its turn is not visited.
RECURSIVE fire(_, _, _)
fire(order, conns, done) ==
    IF order = <<>> THEN [connections |-> conns, delivered |-> done]
    ELSE IF Head(order) \notin conns THEN fire(Tail(order), conns, done)
    ELSE fire(Tail(order), conns \ {disconnects[Head(order)]}, Append(done, Head(order)))

\* fire(...args); the map is visited in an order the program does not control.
EventFire ==
    /\ \E order \in Orders(connections) :
          LET result == fire(order, connections, <<>>)
          IN /\ connections' = result.connections
             /\ delivered' = result.delivered
    /\ UNCHANGED <<eventNextId, disconnects, storeVars, objectVars>>

\* ---------------------------------------------------------------- values that are tables
\* The store for one entity and one component whose values are tables: the
\* own table of the entity, and entityStates of a snapshot, hold the address
\* of a table, 0 when the component is absent.  The caller holds the tables
\* it passed to set and the ones get returned, and writes into them.

\* What is left alone by the calls on that entity.
objectFrame == <<worldVars, groupVars, nextSnapshotId, snapshots, captured,
                 observing, events, returned, eventVars, registryVars, prefabs, queries>>

\* A clone that is the table itself.
cloneShared(heap, ref) == [heap |-> heap, ref |-> ref]

\* deepClone of a table: a new table with the decoded content.
cloneObject(heap, ref) ==
    LET new == Cardinality(DOMAIN heap) + 1
    IN [heap |-> MapSet(heap, new, deepClone(heap[ref])), ref |-> new]

\* There is room for a new table.
CanAllocate == Cardinality(DOMAIN objects) < MaxObjects

\* spawn()
ObjectSpawn ==
    /\ last' = Call("spawn", "void")
    /\ objectTable.state = "new"
    /\ objectTable' = [state |-> "live", ref |-> 0]
    /\ UNCHANGED <<objects, known, objectSnapshots, objectFrame>>

\* despawn(entity)
ObjectDespawn ==
    /\ last' = Call("despawn", "void")
    /\ objectTable.state = "live"
    /\ objectTable' = [state |-> "dead", ref |-> 0]
    /\ UNCHANGED <<objects, known, objectSnapshots, objectFrame>>

\* set(entity, component, value) with a new table that holds v
ObjectSetNew(v) ==
    /\ last' = Call("set", "void")
    /\ objectTable.state = "live"
    /\ CanAllocate
    /\ LET new == Cardinality(DOMAIN objects) + 1
       IN /\ objects' = MapSet(objects, new, v)
          /\ known' = known \cup {new}
          /\ objectTable' = [objectTable EXCEPT !.ref = new]
    /\ UNCHANGED <<objectSnapshots, objectFrame>>

\* set(entity, component, value) with a table the caller holds
ObjectSetKnown(ref) ==
    /\ last' = Call("set", "void")
    /\ objectTable.state = "live"
    /\ ref \in known
    /\ objectTable' = [objectTable EXCEPT !.ref = ref]
    /\ UNCHANGED <<objects, known, objectSnapshots, objectFrame>>

\* get(entity, component): the caller receives the table stored
ObjectGet ==
    /\ last' = Call("get", "void")
    /\ objectTable.state = "live"
    /\ objectTable.ref # 0
    /\ known' = known \cup {objectTable.ref}
    /\ UNCHANGED <<objects, objectTable, objectSnapshots, objectFrame>>

\* The caller writes v into a table it holds.
ObjectWrite(ref, v) ==
    /\ last' = Call("write", "void")
    /\ ref \in known
    /\ objects' = [objects EXCEPT ![ref] = v]
    /\ UNCHANGED <<objectTable, known, objectSnapshots, objectFrame>>

\* remove(entity, component)
ObjectRemove ==
    /\ last' = Call("remove", "void")
    /\ objectTable.state = "live"
    /\ objectTable' = [objectTable EXCEPT !.ref = 0]
    /\ UNCHANGED <<objects, known, objectSnapshots, objectFrame>>

\* What entityStates holds for the entity: nothing (it was not live), or a
\* new table with, for the component, a clone of the value.
NotCaptured == [captured |-> FALSE, ref |-> 0]

\* snapshot()
ObjectSnapshot ==
    /\ last' = Call("snapshot", "void")
    /\ Len(objectSnapshots) < MaxObjectSnapshots
    /\ IF objectTable.state # "live"
       THEN /\ objectSnapshots' = Append(objectSnapshots, NotCaptured)
            /\ UNCHANGED objects
       ELSE IF objectTable.ref = 0
       THEN /\ objectSnapshots' = Append(objectSnapshots, [captured |-> TRUE, ref |-> 0])
            /\ UNCHANGED objects
       ELSE /\ CanAllocate
            /\ LET cloned == cloneObject(objects, objectTable.ref)
               IN /\ objects' = cloned.heap
                  /\ objectSnapshots' = Append(objectSnapshots, [captured |-> TRUE, ref |-> cloned.ref])
    /\ UNCHANGED <<objectTable, known, objectFrame>>

\* revert(snapshot) of a full snapshot
ObjectRevert(s) ==
    /\ last' = Call("revert", "void")
    /\ s \in DOMAIN objectSnapshots
    /\ LET snapshot == objectSnapshots[s]
       IN IF ~snapshot.captured
          THEN /\ objectTable' = IF objectTable.state = "live" THEN [state |-> "dead", ref |-> 0] ELSE objectTable
               /\ UNCHANGED objects
          ELSE IF snapshot.ref = 0
          THEN /\ objectTable' = IF objectTable.state = "live" THEN [objectTable EXCEPT !.ref = 0] ELSE objectTable
               /\ UNCHANGED objects
          ELSE /\ CanAllocate
               /\ LET cloned == cloneObject(objects, snapshot.ref)
                  IN /\ objects' = cloned.heap
                     /\ objectTable' = [state |-> "live", ref |-> cloned.ref]
    /\ UNCHANGED <<known, objectSnapshots, objectFrame>>

NextObjects ==
    \/ ObjectSpawn
    \/ ObjectDespawn
    \/ \E v \in Values : ObjectSetNew(v)
    \/ \E ref \in Addresses : ObjectSetKnown(ref)
    \/ ObjectGet
    \/ \E ref \in Addresses, v \in Values : ObjectWrite(ref, v)
    \/ ObjectRemove
    \/ ObjectSnapshot
    \/ \E s \in 1..MaxObjectSnapshots : ObjectRevert(s)

SpecObjects == Init /\ [][NextObjects]_vars

\* ---------------------------------------------------------------- component registry
\* What is left alone by component(name).
registryFrame == <<worldVars, groupVars, nextSnapshotId, snapshots, captured,
                   observing, events, returned, eventVars, objectVars, prefabs, queries>>

\* A component(name) that binds a registered name to a new id.
ComponentRebinds(name) ==
    /\ componentRegistry' = MapSet(componentRegistry, name, nextComponentId)
    /\ nextComponentId' = nextComponentId + 1
    /\ last' = Call("component", "id")
    /\ UNCHANGED registryFrame

\* component(name)
Component(name) ==
    /\ IF name \in DOMAIN componentRegistry
       THEN /\ last' = Call("component", "error")
            /\ UNCHANGED registryVars
       ELSE LET id == nextComponentId
            IN /\ nextComponentId' = nextComponentId + 1
               /\ componentRegistry' = MapSet(componentRegistry, name, id)
               /\ last' = Call("component", "id")
    /\ UNCHANGED registryFrame

NextRegistry == \E name \in Names : Component(name)

SpecRegistry == Init /\ [][NextRegistry]_vars

\* ---------------------------------------------------------------- prefabs
\* The (component, value) lists prefab, spawn and extend are called with.
PairLists(n) == UNION {[1..k -> ComponentIds \X Values] : k \in 0..n}

\* The calls of set a Prefab.spawn makes, with overrides applied first.
overridesFirst(list, overrides) == overrides \o list

\* The calls of set a Prefab.spawn makes: the two loops, one after the other.
prefabSets(list, overrides) == list \o overrides

\* world.set(entity, component, value) for every pair of the list, in order.
RECURSIVE setEach(_, _, _)
setEach(st, entity, pairs) ==
    IF pairs = <<>> THEN st
    ELSE LET component == Head(pairs)[1]
             had == component \in DOMAIN st.components[entity]
             comps == [st.components EXCEPT ![entity] = MapSet(@, component, Head(pairs)[2])]
             arch == updateEntityArchetype(comps, st.a2e, st.e2a, entity)
         IN setEach([components |-> comps, a2e |-> arch.a2e, e2a |-> arch.e2a,
                     ev |-> IF had THEN st.ev ELSE Append(st.ev, ComponentAdded(entity, component))],
                    entity, Tail(pairs))

\* A call on a prefab, with the prefab and the list it was given.
CallPrefab(op, p, list) == [op |-> op, ret |-> "id", snap |-> 0, prefab |-> p, list |-> list]

\* world.prefab(components)
WorldPrefab(list) ==
    /\ Len(prefabs) < MaxPrefabs
    /\ prefabs' = Append(prefabs, list)
    /\ events' = <<>>
    /\ last' = Call("prefab", "id")
    /\ UNCHANGED <<worldVars, groupVars, returned>>
    /\ UNCHANGED <<nextSnapshotId, snapshots, captured, handlerVars, objectVars, registryVars, queries>>

\* prefab.spawn(overrides)
PrefabSpawn(p, overrides) ==
    /\ p \in DOMAIN prefabs
    /\ nextEntityId <= MaxEntities
    /\ LET entity == nextEntityId
           spawned == [components |-> MapSet(components, entity, EmptyMap),
                       a2e |-> archetypeToEntities, e2a |-> entityToArchetype,
                       ev |-> <<EntitySpawned(entity)>>]
           done == setEach(spawned, entity, prefabSets(prefabs[p], overrides))
       IN /\ nextEntityId' = nextEntityId + 1
          /\ entities' = entities \cup {entity}
          /\ components' = done.components
          /\ archetypeToEntities' = done.a2e
          /\ entityToArchetype' = done.e2a
          /\ events' = Fire(done.ev)
          /\ returned' = returned \cup {entity}
    /\ last' = CallPrefab("prefab.spawn", p, overrides)
    /\ UNCHANGED <<entityToGroups, groupVars, snapVars>>

\* prefab.extend(components)
PrefabExtend(p, more) ==
    /\ p \in DOMAIN prefabs
    /\ Len(prefabs) < MaxPrefabs
    /\ prefabs' = Append(prefabs, prefabs[p] \o more)
    /\ events' = <<>>
    /\ last' = CallPrefab("prefab.extend", p, more)
    /\ UNCHANGED <<worldVars, groupVars, returned>>
    /\ UNCHANGED <<nextSnapshotId, snapshots, captured, handlerVars, objectVars, registryVars, queries>>

NextPrefab ==
    \/ \E list \in PairLists(MaxPrefabLen) : WorldPrefab(list)
    \/ \E p \in 1..MaxPrefabs, overrides \in PairLists(MaxOverrides) : PrefabSpawn(p, overrides)
    \/ \E p \in 1..MaxPrefabs, more \in PairLists(MaxPrefabLen) : PrefabExtend(p, more)

SpecPrefab == InitObserved /\ [][NextPrefab]_vars

\* ---------------------------------------------------------------- queries
MaxQueryLen == 2

\* The required and excluded lists a query is built with.
QueryLists == UNION {[1..n -> ComponentIds] : n \in 0..MaxQueryLen}

\* A matching that does not look at the excluded list.
getMatchingIgnoringExcluded(required, excluded) ==
    IF Len(required) = 0
    THEN {entity \in entities : entity \in DOMAIN components}
    ELSE LET matchingArchetypes ==
                 {archetype \in DOMAIN archetypeToEntities :
                    \A i \in 1..Len(required) :
                        Includes(archetypeComponents(archetype), required[i])}
         IN UNION {archetypeToEntities[archetype] : archetype \in matchingArchetypes}

\* A matching that sends an empty required list through the archetype index.
getMatchingByIndexOnly(required, excluded) ==
    LET matchingArchetypes ==
            {archetype \in DOMAIN archetypeToEntities :
               LET parsed == archetypeComponents(archetype)
               IN /\ \A i \in 1..Len(required) : Includes(parsed, required[i])
                  /\ ~\E i \in 1..Len(excluded) : Includes(parsed, excluded[i])}
    IN UNION {archetypeToEntities[archetype] : archetype \in matchingArchetypes}

\* getMatchingEntities(required, excluded)
getMatchingEntities(required, excluded) ==
    IF Len(required) = 0
    THEN {entity \in entities :
            /\ entity \in DOMAIN components
            /\ ~\E i \in 1..Len(excluded) : excluded[i] \in DOMAIN components[entity]}
    ELSE LET matchingArchetypes ==
                 {archetype \in DOMAIN archetypeToEntities :
                    LET parsed == archetypeComponents(archetype)
                    IN /\ \A i \in 1..Len(required) : Includes(parsed, required[i])
                       /\ ~\E i \in 1..Len(excluded) : Includes(parsed, excluded[i])}
         IN UNION {archetypeToEntities[archetype] : archetype \in matchingArchetypes}

\* query(...).each(cb): the entities the callback is called with.
eachEntities(required, excluded) ==
    {entity \in getMatchingEntities(required, excluded) : entity \in DOMAIN components}

\* The values each passes for an entity, in required-list order.
eachValues(required, entity) ==
    [i \in 1..Len(required) |->
        IF required[i] \in DOMAIN components[entity]
        THEN Found(components[entity][required[i]])
        ELSE NotFound]

\* each of the world without archetype index: a scan of the live entities.
scanEntities(required, excluded) ==
    {entity \in entities :
        /\ \A i \in 1..Len(required) : required[i] \in DOMAIN components[entity]
        /\ ~\E i \in 1..Len(excluded) : excluded[i] \in DOMAIN components[entity]}

\* ---------------------------------------------------------------- query objects
\* What is left alone by the calls on a query object.
queryFrame == <<worldVars, groupVars, nextSnapshotId, snapshots, captured,
                observing, returned, eventVars, objectVars, registryVars, prefabs>>

\* A call on a query object: the object called, the object returned, the
\* ids given and the entities the callback was called with.
CallQuery(op, q, ret, list, visited) ==
    [op |-> op, ret |-> "id", snap |-> 0, query |-> q, returns |-> ret,
     list |-> list, visited |-> visited]

\* A with that returns a new query and leaves the one it is called on as
\* it was.
queryWithCopy(qs, q, newComps) ==
    [queries |-> Append(qs, [qs[q] EXCEPT !.required = @ \o newComps]),
     returns |-> Len(qs) + 1]

\* with(...newComps): pushes onto required and returns the query.
queryWith(qs, q, newComps) ==
    [queries |-> [qs EXCEPT ![q].required = @ \o newComps], returns |-> q]

\* without(...ex): pushes onto excluded and returns the query.
queryWithout(qs, q, ex) ==
    [queries |-> [qs EXCEPT ![q].excluded = @ \o ex], returns |-> q]

\* query(...components)
Query(comps) ==
    /\ Len(queries) < MaxQueries
    /\ queries' = Append(queries, [required |-> comps, excluded |-> <<>>])
    /\ events' = <<>>
    /\ last' = CallQuery("query", 0, Len(queries) + 1, comps, {})
    /\ UNCHANGED queryFrame

\* q.with(...newComps)
QueryWith(q, newComps) ==
    /\ q \in DOMAIN queries
    /\ Len(queries[q].required) + Len(newComps) <= MaxQueryLen
    /\ Len(queries) < MaxQueries \/ queryWith(queries, q, newComps).returns = q
    /\ queries' = queryWith(queries, q, newComps).queries
    /\ events' = <<>>
    /\ last' = CallQuery("query.with", q, queryWith(queries, q, newComps).returns, newComps, {})
    /\ UNCHANGED queryFrame

\* q.without(...ex)
QueryWithout(q, ex) ==
    /\ q \in DOMAIN queries
    /\ Len(queries[q].excluded) + Len(ex) <= MaxExcludedLen
    /\ queries' = queryWithout(queries, q, ex).queries
    /\ events' = <<>>
    /\ last' = CallQuery("query.without", q, queryWithout(queries, q, ex).returns, ex, {})
    /\ UNCHANGED queryFrame

\* q.each(cb)
QueryEach(q) ==
    /\ q \in DOMAIN queries
    /\ events' = <<>>
    /\ last' = CallQuery("query.each", q, 0, <<>>,
                         eachEntities(queries[q].required, queries[q].excluded))
    /\ UNCHANGED <<queries, queryFrame>>

\* Query objects that are built, extended and run while the store changes.
NextQuery ==
    \/ Spawn
    \/ \E e \in EntityIds : Despawn(e)
    \/ \E e \in EntityIds, c \in ComponentIds : Set(e, c, 1)
    \/ \E e \in EntityIds, c \in ComponentIds : Remove(e, c)
    \/ \E comps \in QueryLists : Query(comps)
    \/ \E q \in 1..MaxQueries, c \in ComponentIds : QueryWith(q, <<c>>)
    \/ \E q \in 1..MaxQueries, c \in ComponentIds : QueryWithout(q, <<c>>)
    \/ \E q \in 1..MaxQueries : QueryEach(q)

SpecQuery == Init /\ [][NextQuery]_vars

EntityStep ==
    \/ Spawn
    \/ \E e \in EntityIds : Despawn(e)
    \/ \E e \in EntityIds, c \in ComponentIds, v \in Values : Set(e, c, v)
    \/ \E e \in EntityIds, c \in ComponentIds : Remove(e, c)

GroupStep ==
    \/ CreateGroup
    \/ \E g \in GroupIds : RemoveGroup(g)
    \/ \E g \in GroupIds, e \in EntityIds : GroupAddEntity(g, e)
    \/ \E g \in GroupIds, e \in EntityIds : GroupRemoveEntity(g, e)
    \/ \E g \in GroupIds, c \in GroupComponentIds, v \in Values : GroupSet(g, c, v)
    \/ \E g \in GroupIds, c \in GroupComponentIds : GroupRemove(g, c)

SnapshotStep ==
    \/ \E f \in RevertFilters : Snapshot(f)
    \/ \E s \in SnapshotIds : Revert(s)

\* The store with its snapshots.
Next == EntityStep \/ SnapshotStep

Spec == Init /\ [][Next]_vars

\* The store alone, observed.
SpecEvents == InitObserved /\ [][EntityStep]_vars

\* The group calls that build the overlay.
OverlayStep ==
    \/ CreateGroup
    \/ \E g \in GroupIds, e \in EntityIds : GroupAddEntity(g, e)
    \/ \E g \in GroupIds, e \in EntityIds : GroupRemoveEntity(g, e)
    \/ \E g \in GroupIds, c \in GroupComponentIds, v \in Values : GroupSet(g, c, v)

\* The calls that change own tables without ending an entity.
TableStep ==
    \/ Spawn
    \/ \E e \in EntityIds, c \in ComponentIds, v \in Values : Set(e, c, v)
    \/ \E e \in EntityIds, c \in ComponentIds : Remove(e, c)

\* Own tables under the group overlay, observed.
NextOverlay == TableStep \/ OverlayStep

SpecOverlay == InitObserved /\ [][NextOverlay]_vars

\* The store, despawn included, under the group overlay.
NextStoreGroups == EntityStep \/ OverlayStep

SpecStoreGroups == Init /\ [][NextStoreGroups]_vars

\* Despawn of entities that have components and are members of groups,
\* observed.
NextDespawn ==
    \/ Spawn
    \/ \E e \in EntityIds : Despawn(e)
    \/ \E e \in EntityIds, c \in ComponentIds, v \in Values : Set(e, c, v)
    \/ CreateGroup
    \/ \E g \in GroupIds, e \in EntityIds : GroupAddEntity(g, e)

SpecDespawn == InitObserved /\ [][NextDespawn]_vars

\* The store with every group call, observed.
NextGroups == EntityStep \/ GroupStep

SpecGroups == InitObserved /\ [][NextGroups]_vars

\* Calls on ids that are not live, with groups that list such ids, observed.
NextNotLive ==
    \/ Spawn
    \/ \E e \in EntityIds : Despawn(e)
    \/ \E e \in EntityIds, c \in ComponentIds : Remove(e, c)
    \/ CreateGroup
    \/ \E g \in GroupIds, e \in EntityIds : GroupAddEntity(g, e)
    \/ \E g \in GroupIds, c \in GroupComponentIds, v \in Values : GroupSet(g, c, v)

SpecNotLive == InitObserved /\ [][NextNotLive]_vars

\* Spawn, despawn, full snapshot and revert with group membership calls and
\* removeGroup; entities get one component so that revert can bring them back.
NextMembership ==
    \/ Spawn
    \/ \E e \in EntityIds : Despawn(e)
    \/ \E e \in EntityIds : Set(e, 1, 1)
    \/ Snapshot(NoFilter)
    \/ \E s \in SnapshotIds : Revert(s)
    \/ CreateGroup
    \/ \E g \in GroupIds : RemoveGroup(g)
    \/ \E g \in GroupIds, e \in EntityIds : GroupAddEntity(g, e)
    \/ \E g \in GroupIds, e \in EntityIds : GroupRemoveEntity(g, e)

SpecMembership == Init /\ [][NextMembership]_vars

\* Groups with members that have components, and removeGroup, observed.
NextRemoveGroup ==
    \/ Spawn
    \/ \E e \in EntityIds, c \in ComponentIds : Set(e, c, 1)
    \/ CreateGroup
    \/ \E g \in GroupIds : RemoveGroup(g)
    \/ \E g \in GroupIds, e \in EntityIds : GroupAddEntity(g, e)

SpecRemoveGroup == InitObserved /\ [][NextRemoveGroup]_vars

\* Groups that are removed and whose objects are used afterwards.
NextRemovedGroup ==
    \/ Spawn
    \/ CreateGroup
    \/ \E g \in GroupIds : RemoveGroup(g)
    \/ \E g \in GroupIds, e \in EntityIds : GroupAddEntity(g, e)
    \/ \E g \in GroupIds, c \in GroupComponentIds : GroupSet(g, c, 1)

SpecRemovedGroup == Init /\ [][NextRemovedGroup]_vars

\* Own tables under the group overlay, with full snapshot and revert.
NextOverlayRevert ==
    \/ Spawn
    \/ \E e \in EntityIds, c \in ComponentIds : Set(e, c, 1)
    \/ Snapshot(NoFilter)
    \/ \E s \in SnapshotIds : Revert(s)
    \/ CreateGroup
    \/ \E g \in GroupIds, e \in EntityIds : GroupAddEntity(g, e)
    \/ \E g \in GroupIds, c \in GroupComponentIds : GroupSet(g, c, 1)

SpecOverlayRevert == Init /\ [][NextOverlayRevert]_vars

\* The store with its snapshots, observed; one value.
NextRevertEvents ==
    \/ Spawn
    \/ \E e \in EntityIds : Despawn(e)
    \/ \E e \in EntityIds, c \in ComponentIds : Set(e, c, 1)
    \/ \E e \in EntityIds, c \in ComponentIds : Remove(e, c)
    \/ SnapshotStep

SpecRevertEvents == InitObserved /\ [][NextRevertEvents]_vars

\* Snapshot and revert of entities that are members of groups, observed.
NextRevertGroups ==
    \/ Spawn
    \/ \E e \in EntityIds : Despawn(e)
    \/ \E e \in EntityIds : Set(e, 1, 1)
    \/ SnapshotStep
    \/ CreateGroup
    \/ \E g \in GroupIds, e \in EntityIds : GroupAddEntity(g, e)
    \/ \E g \in GroupIds, c \in GroupComponentIds : GroupSet(g, c, 1)

SpecRevertGroups == InitObserved /\ [][NextRevertGroups]_vars

\* Snapshots with every filter, of entities under the group overlay.
NextCapture ==
    \/ Spawn
    \/ \E e \in EntityIds, c \in ComponentIds : Set(e, c, 1)
    \/ \E f \in Filters : Snapshot(f)
    \/ CreateGroup
    \/ \E g \in GroupIds, e \in EntityIds : GroupAddEntity(g, e)
    \/ \E g \in GroupIds, c \in GroupComponentIds : GroupSet(g, c, 1)

SpecCapture == Init /\ [][NextCapture]_vars

\* One Event object with handlers that disconnect themselves or others.
NextEventFire ==
    \/ \E target \in HandlerIds \cup {-1} : EventConnect(target)
    \/ \E id \in HandlerIds : EventDisconnect(id)
    \/ EventFire

SpecEventFire == Init /\ [][NextEventFire]_vars

\* ================================================================ claims

\* C1: for every live entity, the component ids of its own table are the ids
\* parsed from the signature of the archetype bucket that holds it, and an
\* entity with an empty table is in no bucket.
C1_ArchetypeConsistent ==
    \A e \in entities :
        /\ \A sig \in DOMAIN archetypeToEntities :
              e \in archetypeToEntities[sig] =>
                  {archetypeComponents(sig)[i] : i \in 1..Len(archetypeComponents(sig))} = OwnKeys(e)
        /\ OwnKeys(e) # {} => \E sig \in DOMAIN archetypeToEntities : e \in archetypeToEntities[sig]

\* C2: for every non-empty required list and every excluded list, the
\* entities each visits are the live entities whose own table has every
\* required id and no excluded id (what the scan without index gives).
C2_QueryEqualsScan ==
    \A required \in QueryLists \ {<<>>}, excluded \in QueryLists :
        eachEntities(required, excluded) = scanEntities(required, excluded)

\* The component filter a snapshot was taken with, and whether it is partial.
FilterOf(s) == {snapshots[s].components.ids[i] : i \in 1..Len(snapshots[s].components.ids)}
PartialSnapshot(s) == snapshots[s].components.given /\ FilterOf(s) # {}

\* C3 as stated: after revert of a full snapshot, valid, has and get answer
\* for every entity and component what they answered when it was taken.
C3_RoundTrip ==
    [][\A s \in DOMAIN snapshots :
          (Revert(s) /\ ~PartialSnapshot(s)) =>
              /\ Observation'.valid = captured[s].valid
              /\ Observation'.has = captured[s].has
              /\ Observation'.get = captured[s].get]_vars

\* C3: after revert of a full snapshot the live entities are the captured
\* ones that had a component or are still live, and the own table of each
\* of them is the captured one; nothing else is live.
C3_FullRevertRestoresOwnTables ==
    [][\A s \in DOMAIN snapshots :
          (Revert(s) /\ ~PartialSnapshot(s)) =>
              /\ entities' = {e \in captured[s].valid :
                                 DOMAIN captured[s].own[e] # {} \/ e \in entities}
              /\ \A e \in entities' : components'[e] = captured[s].own[e]]_vars

\* A full revert brought back a table with components while a captured
\* entity without components, despawned since, stayed dead.
C3_Witness ==
    /\ last.op = "revert"
    /\ ~PartialSnapshot(last.snap)
    /\ \E e \in entities :
          /\ OwnKeys(e) # {}
          /\ components[e] = captured[last.snap].own[e]
    /\ \E e \in captured[last.snap].valid : e \notin entities

\* C4: a revert of a full snapshot that follows a revert of the same
\* snapshot leaves valid, has and get as the first revert left them.
C4_RevertIdempotent ==
    [][\A s \in DOMAIN snapshots :
          (Revert(s) /\ ~PartialSnapshot(s) /\ last = CallRevert(s)) =>
              Observation' = Observation]_vars

\* A full snapshot has just been reverted to and the world is not empty:
\* the state the second revert starts from and ends in.
C4_Witness ==
    /\ last.op = "revert"
    /\ ~PartialSnapshot(last.snap)
    /\ \E e \in entities : OwnKeys(e) # {}
    /\ \E e \in returned : e \notin entities

\* C5: a revert of a partial snapshot with filter F despawns nothing,
\* removes no component, leaves every component outside F as it is, and
\* what it adds or overwrites is a component of F of a captured entity,
\* set to the captured value.
C5_PartialRevert ==
    [][\A s \in DOMAIN snapshots :
          (Revert(s) /\ PartialSnapshot(s)) =>
              /\ entities \subseteq entities'
              /\ \A e \in entities :
                    /\ OwnKeys(e) \subseteq DOMAIN components'[e]
                    /\ \A c \in OwnKeys(e) \ FilterOf(s) :
                          components'[e][c] = components[e][c]
              /\ \A e \in entities' : \A c \in DOMAIN components'[e] :
                    (e \notin entities \/ c \notin OwnKeys(e)
                        \/ components'[e][c] # components[e][c]) =>
                        /\ c \in FilterOf(s)
                        /\ e \in DOMAIN snapshots[s].entityStates
                        /\ c \in DOMAIN snapshots[s].entityStates[e]
                        /\ components'[e][c] = snapshots[s].entityStates[e][c]]_vars

\* After a partial revert an entity holds a component outside the filter
\* next to a captured component of the filter, and an entity spawned after
\* the snapshot is still live.
C5_Witness ==
    /\ last.op = "revert"
    /\ PartialSnapshot(last.snap)
    /\ \E e \in entities :
          /\ OwnKeys(e) \ FilterOf(last.snap) # {}
          /\ \E c \in OwnKeys(e) \cap FilterOf(last.snap) :
                /\ e \in DOMAIN snapshots[last.snap].entityStates
                /\ c \in DOMAIN snapshots[last.snap].entityStates[e]
    /\ \E e \in entities : e \notin captured[last.snap].valid

\* The step is a call of op.
Called(op) == last'.op = op

\* C6: get returns the own value of a component, and has returns true,
\* whenever the own table of a live entity has the component.
C6_OwnValueRead ==
    \A e \in entities : \A c \in OwnKeys(e) :
        /\ get(e, c) = {Found(components[e][c])}
        /\ has(e, c)

Overlaid(e, c, g) ==
    /\ e \in entities
    /\ ~OwnHas(e, c)
    /\ e \in groupEntities[g]
    /\ c \in DOMAIN groupComponents[g]

\* C7 as stated: get returns the value of g whenever e lacks c itself and
\* g, a group of e, has it.
C7_GetReturnsValueOfGroup ==
    \A e \in EntityIds, c \in ComponentIds, g \in CreatedGroups :
        Overlaid(e, c, g) => get(e, c) = {Found(groupComponents[g][c])}

\* The values get may return for c of e from the groups e is a member of.
OverlayValues(e, c) ==
    {Found(groupComponents[h][c]) : h \in {k \in CreatedGroups : Overlaid(e, c, k)}}

\* C7: when e lacks c itself and a group of e has c, has is true and get
\* returns the value c has in one of the groups of e that have it.
C7_OverlayState ==
    \A e \in EntityIds, c \in ComponentIds, g \in CreatedGroups :
        Overlaid(e, c, g) =>
            /\ has(e, c)
            /\ get(e, c) # {}
            /\ get(e, c) = OverlayValues(e, c)

\* C7, with the above: remove of such a component returns false, emits
\* nothing, and leaves the tables of the groups, and so has, as they were.
C7_Overlay ==
    /\ []C7_OverlayState
    /\ [][\A e \in EntityIds, c \in ComponentIds :
             (Remove(e, c) /\ \E g \in CreatedGroups : Overlaid(e, c, g)) =>
                 /\ last'.ret = "false"
                 /\ events' = <<>>
                 /\ groupComponents' = groupComponents
                 /\ has(e, c)']_vars

\* A remove has returned false and emitted nothing while an entity is in
\* two groups that have, with different values, a component it lacks.
C7_Witness ==
    /\ last = Call("remove", "false")
    /\ observing /\ events = <<>>
    /\ \E e \in EntityIds, c \in ComponentIds : \E g, h \in CreatedGroups :
          /\ Overlaid(e, c, g) /\ Overlaid(e, c, h)
          /\ groupComponents[g][c] # groupComponents[h][c]

\* C8: an entity that was spawned and is not live becomes live by revert
\* only; spawn returns an id that is not live, was never returned, and is
\* greater than every id returned or live; despawn of a live entity ends it.
C8_IdsNotReused ==
    [][/\ \A e \in returned \ entities :
             e \in entities' => \E s \in DOMAIN snapshots : Revert(s)
       /\ Spawn =>
             \E id \in entities' \ entities :
                 /\ id \notin returned
                 /\ \A r \in returned \cup entities : id > r
       /\ \A e \in entities : Despawn(e) => e \notin entities']_vars

\* A spawn has returned a new id while an id returned earlier is not live.
C8_Witness ==
    /\ last.op = "spawn"
    /\ nextEntityId - 1 \in entities
    /\ \E e \in returned : e \notin entities /\ e < nextEntityId - 1

\* C9: a set on a live entity emits ComponentAdded for that entity and
\* component exactly when the component was absent from the own table (and
\* nothing otherwise), and only a set takes a component from absent to
\* present.
C9_AddedOnTransition ==
    [][/\ \A e \in EntityIds, c \in ComponentIds, v \in Values :
             (Set(e, c, v) /\ valid(e)) =>
                 /\ events' \in {<<>>, <<ComponentAdded(e, c)>>}
                 /\ (events' = <<ComponentAdded(e, c)>>) <=> (~OwnHas(e, c) /\ OwnHas(e, c)')
       /\ \A e \in EntityIds, c \in ComponentIds :
             (~OwnHas(e, c) /\ OwnHas(e, c)') => \E v \in Values : Set(e, c, v)
       /\ \A e \in EntityIds, c \in ComponentIds :
             Remove(e, c) => events' \in {<<>>, <<ComponentRemoved(e, c)>>}]_vars

\* A set has overwritten a component and emitted nothing.
C9_Witness ==
    /\ observing
    /\ last = Call("set", "void")
    /\ events = <<>>
    /\ \E e \in entities : OwnKeys(e) # {}

C11_DespawnCleansUp ==
    [][\A e \in EntityIds :
          (Called("despawn") /\ Despawn(e) /\ last'.ret = "true") =>
              /\ \A g \in DOMAIN groupEntities' : e \notin groupEntities'[g]
              /\ e \notin DOMAIN entityToGroups'
              /\ e \notin DOMAIN components'
              /\ \A sig \in DOMAIN archetypeToEntities' : e \notin archetypeToEntities'[sig]
              /\ e \notin DOMAIN entityToArchetype']_vars
\* C12: a set on an entity that is not live fails with an error, emits
\* nothing and leaves the entity set, the component tables, the archetype
\* index, the groups and the reverse index as they were.
C12_SetOnDeadEntity ==
    [][Called("set") =>
          \A e \in EntityIds, c \in ComponentIds, v \in Values :
              (Set(e, c, v) /\ ~valid(e)) =>
                  /\ last'.ret = "error"
                  /\ events' = <<>>
                  /\ UNCHANGED <<worldVars, groupVars>>]_vars

\* A set has failed while a despawned entity and a group with a member
\* exist.
C12_Witness ==
    /\ last = Call("set", "error")
    /\ observing /\ events = <<>>
    /\ \E e \in returned : e \notin entities
    /\ \E g \in CreatedGroups : groupEntities[g] # {}

\* C13 as stated: snapshot returns absent, and records nothing, when no
\* entity is live, and returns a snapshot otherwise.
C13_SnapshotAbsentWhenEmpty ==
    [][Called("snapshot") =>
          \A f \in Filters :
              Snapshot(f) =>
                  IF entities = {}
                  THEN last'.ret = "absent" /\ snapshots' = snapshots
                  ELSE last'.ret = "id" /\ nextSnapshotId \in DOMAIN snapshots']_vars
\* C14: for an id that is not live get returns absent and has returns
\* false, whatever the groups hold.
C14_NotLiveRead ==
    \A e \in EntityIds \ entities : \A c \in ComponentIds :
        /\ get(e, c) = {NotFound}
        /\ ~has(e, c)

\* C14, with the above: despawn and remove of an id that is not live return
\* false, emit nothing and change no state.
C14_NotLive ==
    /\ []C14_NotLiveRead
    /\ [][/\ Called("despawn") =>
                \A e \in EntityIds \ entities :
                    Despawn(e) =>
                        /\ last'.ret = "false"
                        /\ events' = <<>>
                        /\ UNCHANGED <<worldVars, groupVars>>
          /\ Called("remove") =>
                \A e \in EntityIds \ entities : \A c \in ComponentIds :
                    Remove(e, c) =>
                        /\ last'.ret = "false"
                        /\ events' = <<>>
                        /\ UNCHANGED <<worldVars, groupVars>>]_vars

\* A despawn has returned false and emitted nothing while a group lists an
\* id that is not live and has a component set.
C14_Witness ==
    /\ last = Call("despawn", "false")
    /\ observing /\ events = <<>>
    /\ \E e \in EntityIds \ entities : \E g \in CreatedGroups :
          /\ e \in groupEntities[g]
          /\ groupComponents[g] # EmptyMap
          /\ g \in GroupsOf(e)
\* The component ids a signature stands for.
SignatureIds(sig) == {archetypeComponents(sig)[i] : i \in 1..Len(archetypeComponents(sig))}

\* In the archetype index after the step, e is filed under exactly the ids
\* in keys: in one bucket with these ids and recorded under its signature,
\* or in no bucket and not recorded when keys is empty.
FiledUnder(e, keys) ==
    /\ \A sig \in DOMAIN archetypeToEntities' :
          e \in archetypeToEntities'[sig] =>
              SignatureIds(sig) = keys /\ entityToArchetype'[e] = sig
    /\ IF keys = {}
       THEN e \notin DOMAIN entityToArchetype'
       ELSE /\ e \in DOMAIN entityToArchetype'
            /\ entityToArchetype'[e] \in DOMAIN archetypeToEntities'
            /\ e \in archetypeToEntities'[entityToArchetype'[e]]

\* C15: remove on a live entity returns true exactly when the component is
\* in the own table; then it deletes the component from that table and
\* nothing else, emits one ComponentRemoved, and files the entity under its
\* remaining ids in the archetype index; otherwise it emits nothing and
\* changes no state.
C15_Remove ==
    [][Called("remove") =>
          \A e \in entities : \A c \in ComponentIds :
              Remove(e, c) =>
                  IF c \in OwnKeys(e)
                  THEN /\ last'.ret = "true"
                       /\ components' = [components EXCEPT ![e] = MapDelete(@, c)]
                       /\ events' = <<ComponentRemoved(e, c)>>
                       /\ FiledUnder(e, OwnKeys(e) \ {c})
                       /\ \A f \in entities \ {e} :
                             /\ (f \in DOMAIN entityToArchetype') = (f \in DOMAIN entityToArchetype)
                             /\ \A sig \in DOMAIN archetypeToEntities' :
                                   f \in archetypeToEntities'[sig] =>
                                       sig \in DOMAIN archetypeToEntities /\ f \in archetypeToEntities[sig]
                       /\ UNCHANGED <<entities, entityToGroups, groupVars>>
                  ELSE /\ last'.ret = "false"
                       /\ events' = <<>>
                       /\ UNCHANGED <<worldVars, groupVars>>]_vars

\* A remove has returned true and emitted its event for an entity that
\* keeps another component.
C15_Witness ==
    /\ last = Call("remove", "true")
    /\ observing
    /\ \E e \in entities : \E c \in ComponentIds \ OwnKeys(e) :
          /\ events = <<ComponentRemoved(e, c)>>
          /\ OwnKeys(e) # {}
          /\ entityToArchetype[e] = generateArchetypeSignature(OwnKeys(e))
\* C16: a query with an id that is both required and excluded visits no
\* entity, in every state.
C16_UnsatisfiableQuery ==
    \A required \in QueryLists, excluded \in QueryLists :
        (\E i \in 1..Len(required), j \in 1..Len(excluded) : required[i] = excluded[j]) =>
            eachEntities(required, excluded) = {}

\* An entity is visited by the query for a component and not by the query
\* that requires and excludes that component.
C16_Witness ==
    \E c \in ComponentIds :
        /\ eachEntities(<<c>>, <<>>) # {}
        /\ eachEntities(<<c>>, <<c>>) = {}
\* The handlers a fire invoked.
Invoked(seq) == {seq[i] : i \in 1..Len(seq)}

C18_MembershipIdempotent ==
    [][/\ Called("group.addEntity") =>
             \A g \in CreatedGroups, e \in EntityIds :
                 GroupAddEntity(g, e) =>
                     IF e \in groupEntities[g]
                     THEN events' = <<>> /\ UNCHANGED <<worldVars, groupVars>>
                     ELSE /\ events' = <<EntityAddedToGroup(e, g)>>
                          /\ groupEntities' = [groupEntities EXCEPT ![g] = @ \cup {e}]
       /\ Called("group.removeEntity") =>
             \A g \in CreatedGroups, e \in EntityIds :
                 GroupRemoveEntity(g, e) =>
                     IF e \notin groupEntities[g]
                     THEN events' = <<>> /\ UNCHANGED <<worldVars, groupVars>>
                     ELSE /\ events' = <<EntityRemovedFromGroup(e, g)>>
                          /\ groupEntities' = [groupEntities EXCEPT ![g] = @ \ {e}]]_vars

\* An addEntity has emitted nothing: the entity was a member already.
C18_Witness ==
    /\ last = Call("group.addEntity", "void")
    /\ observing /\ events = <<>>
    /\ \E g \in CreatedGroups : groupEntities[g] # {}
\* C19: for every entity id and every group created by the world, the
\* group is among the groups the world gives for the entity exactly when
\* the entity is a member of the group.
C19_ReverseIndexInSync ==
    \A e \in EntityIds, g \in CreatedGroups :
        (g \in getGroupsForEntity(e)) <=> (e \in groupEntities[g])

\* A revert has despawned an entity while another entity is a member of a
\* group and a removed group exists.
C19_Witness ==
    /\ last.op = "revert"
    /\ \E e \in returned : e \notin entities
    /\ \E e \in entities, g \in CreatedGroups : e \in groupEntities[g]
    /\ CreatedGroups \ groups # {}
\* C20: removeGroup of a group of the world empties its member set, takes
\* it out of the world, leaves the entity set, the own tables, the
\* archetype index and the other groups as they were, and emits one
\* EntityRemovedFromGroup per former member and nothing else.
C20_RemoveGroup ==
    [][Called("removeGroup") =>
          \A g \in groups :
              RemoveGroup(g) =>
                  /\ groupEntities'[g] = {}
                  /\ g \notin groups'
                  /\ \A h \in CreatedGroups \ {g} : groupEntities'[h] = groupEntities[h]
                  /\ UNCHANGED <<entities, components, archetypeToEntities,
                                 entityToArchetype, groupComponents>>
                  /\ \E eo \in Orders(groupEntities[g]) :
                        events' = [i \in 1..Len(eo) |-> EntityRemovedFromGroup(eo[i], g)]]_vars

\* A removeGroup has emitted two events and a live entity with a component
\* is still there.
C20_Witness ==
    /\ last.op = "removeGroup"
    /\ observing /\ Len(events) = 2
    /\ \E g \in CreatedGroups \ groups : groupEntities[g] = {}
    /\ \E e \in entities : OwnKeys(e) # {} /\ e \in DOMAIN entityToArchetype
\* What a snapshot stores for the component: absent, or the number in the
\* table entityStates holds.
StoredValue(snapshot) ==
    IF snapshot.ref = 0 THEN NotFound ELSE Found(objects[snapshot.ref])

\* C21: the tables a snapshot holds are held by nothing else: not by the
\* own table of the entity, not by the caller, not by another snapshot.
C21_NoAlias ==
    \A s \in DOMAIN objectSnapshots :
        objectSnapshots[s].ref # 0 =>
            /\ objectTable.ref # objectSnapshots[s].ref
            /\ objectSnapshots[s].ref \notin known
            /\ \A t \in DOMAIN objectSnapshots \ {s} :
                  objectSnapshots[t].ref # objectSnapshots[s].ref

\* C21, with the above: no call and no write of the caller changes whether
\* a snapshot holds the entity, whether it holds the component, or the
\* value it holds for it.
C21_SnapshotImmutable ==
    /\ []C21_NoAlias
    /\ [][\A s \in DOMAIN objectSnapshots :
             /\ objectSnapshots'[s] = objectSnapshots[s]
             /\ StoredValue(objectSnapshots[s])' = StoredValue(objectSnapshots[s])]_vars

\* A revert has put a new table into the world, which the caller does not
\* hold yet, while two snapshots hold different values and the caller has
\* written into a table it holds since.
C21_Witness ==
    /\ last.op = "revert"
    /\ Len(objectSnapshots) = 2
    /\ objectSnapshots[1].ref # 0 /\ objectSnapshots[2].ref # 0
    /\ objectTable.ref # 0 /\ objectTable.ref \notin known
    /\ objects[objectSnapshots[1].ref] # objects[objectSnapshots[2].ref]
    /\ \E ref \in known : objects[ref] # objects[objectSnapshots[1].ref]
\* C22: no two registered names have the same id, and every id is positive
\* and below the counter.
C22_OneIdPerName ==
    /\ \A n, m \in DOMAIN componentRegistry :
          componentRegistry[n] = componentRegistry[m] => n = m
    /\ \A n \in DOMAIN componentRegistry :
          componentRegistry[n] > 0 /\ componentRegistry[n] < nextComponentId

\* C22, with the above: component(name) with a registered name fails and
\* leaves registry and counter as they were; with a new name it returns a
\* positive id greater than every id returned before, binds the name to
\* it and leaves every other binding as it was.
C22_Component ==
    /\ []C22_OneIdPerName
    /\ [][\A name \in Names :
             Component(name) =>
                 IF name \in DOMAIN componentRegistry
                 THEN /\ last'.ret = "error"
                      /\ UNCHANGED <<componentRegistry, nextComponentId>>
                 ELSE /\ last'.ret = "id"
                      /\ DOMAIN componentRegistry' = DOMAIN componentRegistry \cup {name}
                      /\ componentRegistry'[name] > 0
                      /\ \A n \in DOMAIN componentRegistry :
                            /\ componentRegistry'[name] > componentRegistry[n]
                            /\ componentRegistry'[n] = componentRegistry[n]]_vars

\* A component call has failed on a registered name while three names are
\* registered.
C22_Witness ==
    /\ last = Call("component", "error")
    /\ Cardinality(DOMAIN componentRegistry) = 3
    /\ nextComponentId = 4
\* C23: the live entities are the keys of the map of own component tables.
C23_TablesOfLiveEntities == entities = DOMAIN components

\* A revert has left a live entity with an empty table and a captured
\* entity that was despawned dead.
C23_Witness ==
    /\ last.op = "revert"
    /\ \E e \in entities : e \in DOMAIN components /\ components[e] = EmptyMap
    /\ \E e \in returned \ entities :
          /\ e \in DOMAIN snapshots[last.snap].entityStates
          /\ e \notin DOMAIN components
\* The table a list of (component, value) pairs gives when each pair is
\* written in order: for every component of the list, the last value given.
LastGiven(pairs) ==
    [c \in {pairs[i][1] : i \in 1..Len(pairs)} |->
        pairs[CHOOSE i \in 1..Len(pairs) :
                 /\ pairs[i][1] = c
                 /\ \A j \in (i + 1)..Len(pairs) : pairs[j][1] # c][2]]

\* C24: prefab.spawn(overrides) makes one new entity live whose own table
\* holds, for every component of the prefab's list or of the overrides,
\* the value of the overrides if they give one (the last one), else the
\* last value of the prefab's list, and nothing else; it leaves the other
\* tables and the prefabs as they were.  extend makes a new prefab with the
\* list of this one followed by the components given, and leaves the
\* prefabs there were as they were.
C24_Prefab ==
    [][/\ Called("prefab.spawn") =>
             LET p == last'.prefab
                 overrides == last'.list
             IN /\ PrefabSpawn(p, overrides)
                /\ entities' = entities \cup {nextEntityId}
                /\ nextEntityId \notin entities
                /\ components'[nextEntityId] =
                      [c \in DOMAIN LastGiven(prefabs[p]) \cup DOMAIN LastGiven(overrides) |->
                          IF c \in DOMAIN LastGiven(overrides)
                          THEN LastGiven(overrides)[c]
                          ELSE LastGiven(prefabs[p])[c]]
                /\ \A e \in entities : components'[e] = components[e]
                /\ prefabs' = prefabs
       /\ Called("prefab.extend") =>
             LET p == last'.prefab
                 more == last'.list
             IN /\ PrefabExtend(p, more)
                /\ Len(prefabs') = Len(prefabs) + 1
                /\ prefabs'[Len(prefabs')] = prefabs[p] \o more
                /\ \A q \in DOMAIN prefabs : prefabs'[q] = prefabs[q]
                /\ UNCHANGED <<entities, components>>]_vars

\* An entity spawned from an extended prefab holds a value of the
\* overrides for a component that the prefab's list gives another value.
C24_Witness ==
    /\ last.op = "prefab.spawn"
    /\ Len(prefabs) = 2
    /\ \E e \in entities : \E c \in OwnKeys(e) :
          /\ \E i \in 1..Len(prefabs[2]) : prefabs[2][i][1] = c
          /\ \A i \in 1..Len(prefabs[2]) :
                prefabs[2][i][1] = c => prefabs[2][i][2] # components[e][c]
          /\ e = nextEntityId - 1
    /\ Len(prefabs[2]) = Len(prefabs[1]) + 1
\* No bucket of the archetype index is empty.
NoEmptyBucket == \A sig \in DOMAIN archetypeToEntities : archetypeToEntities[sig] # {}

\* C25 as stated: the archetype index never contains an empty bucket; a
\* set or remove on a live entity that changes the ids of its own table
\* leaves it filed under the new ids only (out of the old bucket, in the
\* bucket of the new signature) and moves no other entity; a set that only
\* overwrites a value, and a set or remove that changes nothing, leaves
\* the index unchanged.
C25_MigrationStep ==
    /\ []NoEmptyBucket
    /\ [][(Called("set") \/ Called("remove")) =>
             \A e \in entities : \A c \in ComponentIds :
                 ((\E v \in Values : Set(e, c, v)) \/ Remove(e, c)) =>
                     IF DOMAIN components'[e] # OwnKeys(e)
                     THEN /\ FiledUnder(e, DOMAIN components'[e])
                          /\ \A f \in DOMAIN entityToArchetype \ {e} :
                                /\ f \in DOMAIN entityToArchetype'
                                /\ entityToArchetype'[f] = entityToArchetype[f]
                                /\ f \in archetypeToEntities'[entityToArchetype[f]]
                     ELSE UNCHANGED <<archetypeToEntities, entityToArchetype>>]_vars
\* The ids of a list.
ListIds(list) == {list[i] : i \in 1..Len(list)}

\* C26: a query with an empty required list visits exactly the live
\* entities whose own table has none of the excluded ids, and every live
\* entity when nothing is excluded.
C26_EmptyRequired ==
    /\ \A excluded \in QueryLists :
          eachEntities(<<>>, excluded) = {e \in entities : OwnKeys(e) \cap ListIds(excluded) = {}}
    /\ eachEntities(<<>>, <<>>) = entities

\* After a revert, a live entity without components is visited and a
\* live entity with an excluded component is not.
C26_Witness ==
    /\ last.op = "revert"
    /\ \E e, f \in entities : \E c \in ComponentIds :
          /\ OwnKeys(e) = {}
          /\ c \in OwnKeys(f)
          /\ e \in eachEntities(<<>>, <<c>>)
          /\ f \notin eachEntities(<<>>, <<c>>)
\* C27 as stated: a live entity that has c through a group only is visited
\* by no query that requires c, and is visited by every query that
\* excludes c and whose required and excluded ids its own table satisfies.
C27_QueryIgnoresOverlay ==
    \A e \in entities, c \in ComponentIds :
        (has(e, c) /\ ~OwnHas(e, c)) =>
            \A required \in QueryLists, excluded \in QueryLists :
                /\ c \in ListIds(required) => e \notin eachEntities(required, excluded)
                /\ (/\ c \in ListIds(excluded)
                    /\ ListIds(required) \subseteq OwnKeys(e)
                    /\ ListIds(excluded) \cap OwnKeys(e) = {}) =>
                       e \in eachEntities(required, excluded)
\* C28 as stated: for every query, each passes for every entity it visits
\* and every required component, in required-list order, the value the
\* own table of the entity holds for it, and no passed value is absent.
C28_EachPassesOwnValues ==
    \A required \in QueryLists, excluded \in QueryLists :
        \A e \in eachEntities(required, excluded) :
            /\ Len(eachValues(required, e)) = Len(required)
            /\ \A i \in 1..Len(required) :
                  /\ eachValues(required, e)[i].found
                  /\ OwnHas(e, required[i])
                  /\ eachValues(required, e)[i] = Found(components[e][required[i]])
\* The groups that list e as a member and have c.
GroupsHaving(e, c) ==
    {g \in CreatedGroups : e \in groupEntities[g] /\ c \in DOMAIN groupComponents[g]}

\* C29: for a live entity e, get(e,c) returns the own value when the own
\* table has c, whatever the groups of e hold; otherwise the value of c
\* in one of the groups of e that have c; and absent only when the own
\* table and every group of e lack c.  has(e,c) is true exactly when get
\* returns a value.
C29_ResolutionOrder ==
    \A e \in entities, c \in ComponentIds :
        /\ OwnHas(e, c) => get(e, c) = {Found(components[e][c])}
        /\ (~OwnHas(e, c) /\ GroupsHaving(e, c) # {}) =>
              /\ get(e, c) # {}
              /\ get(e, c) \subseteq {Found(groupComponents[g][c]) : g \in GroupsHaving(e, c)}
        /\ (NotFound \in get(e, c)) <=> (~OwnHas(e, c) /\ GroupsHaving(e, c) = {})
        /\ has(e, c) <=> (NotFound \notin get(e, c))

\* One entity owns a component that its group holds with another value,
\* another entity gets the component from the group only, and a member of
\* a group gets absent for a component neither it nor the group has.
C29_Witness ==
    \E e, f \in entities, c \in ComponentIds, g \in CreatedGroups :
        /\ e # f
        /\ {e, f} \subseteq groupEntities[g]
        /\ OwnHas(e, c) /\ c \in DOMAIN groupComponents[g]
        /\ groupComponents[g][c] # components[e][c]
        /\ get(e, c) = {Found(components[e][c])}
        /\ ~OwnHas(f, c) /\ get(f, c) = {Found(groupComponents[g][c])}
        /\ \E d \in ComponentIds : get(f, d) = {NotFound} /\ ~has(f, d)
\* How often an event was received during the last call.
Count(evs, ev) == Cardinality({i \in 1..Len(evs) : evs[i] = ev})

\* C30: a revert emits, for every captured entity e that is live or that
\* it resurrects, ComponentAdded(e,c) once for every component c of the
\* captured table, whatever e held before, and for no other component; for
\* a full snapshot ComponentRemoved(e,c) once for every own component of
\* e that the captured table lacks, and for no other component of a
\* captured entity; and EntitySpawned(e) once for every entity it
\* resurrects and for no other.
C30_RevertEvents ==
    [][Called("revert") =>
          LET snapshot == snapshots[last'.snap]
              full == ~PartialSnapshot(last'.snap)
          IN \A e \in EntityIds :
                LET isCaptured == e \in DOMAIN snapshot.entityStates
                    resurrected == isCaptured /\ e \notin entities
                                       /\ DOMAIN snapshot.entityStates[e] # {}
                    restored == IF isCaptured /\ (e \in entities \/ resurrected)
                                THEN DOMAIN snapshot.entityStates[e] ELSE {}
                    deleted == IF isCaptured /\ full
                               THEN OwnKeys(e) \ DOMAIN snapshot.entityStates[e] ELSE {}
                IN /\ Count(events', EntitySpawned(e)) = IF resurrected THEN 1 ELSE 0
                   /\ \A c \in ComponentIds :
                         /\ Count(events', ComponentAdded(e, c)) = IF c \in restored THEN 1 ELSE 0
                         /\ isCaptured =>
                               Count(events', ComponentRemoved(e, c)) = IF c \in deleted THEN 1 ELSE 0]_vars

\* A full revert has resurrected one entity and has removed a component
\* from, and restored a component of, another that stayed live.
C30_Witness ==
    /\ last.op = "revert"
    /\ observing
    /\ \E e, f \in entities : \E c, d \in ComponentIds :
          /\ Count(events, EntitySpawned(e)) = 1
          /\ Count(events, ComponentAdded(e, c)) = 1
          /\ Count(events, EntitySpawned(f)) = 0
          /\ Count(events, ComponentRemoved(f, d)) = 1
          /\ Count(events, ComponentAdded(f, c)) = 1
\* C31: a revert leaves the component table of every group and the set of
\* groups as they were; it takes out of every group, and out of the
\* reverse index, exactly the live entities a full revert despawns (those
\* the snapshot lacks), emitting EntityRemovedFromGroup for these
\* memberships and no other group event; every other membership, that of
\* a resurrected entity included, is as it was before the revert.
C31_RevertAndGroups ==
    [][Called("revert") =>
          LET snapshot == snapshots[last'.snap]
              gone == IF PartialSnapshot(last'.snap) THEN {}
                      ELSE {e \in entities : e \notin DOMAIN snapshot.entityStates}
          IN /\ UNCHANGED <<groupComponents, groups>>
             /\ entities \ entities' = gone
             /\ \A g \in CreatedGroups : groupEntities'[g] = groupEntities[g] \ gone
             /\ \A e \in EntityIds :
                   /\ GroupsOf(e)' = IF e \in gone THEN {} ELSE GroupsOf(e)
                   /\ \A g \in CreatedGroups :
                         /\ Count(events', EntityAddedToGroup(e, g)) = 0
                         /\ (Count(events', EntityRemovedFromGroup(e, g)) > 0)
                               <=> (e \in gone /\ g \in GroupsOf(e))]_vars

\* A full revert has despawned a member of a group and resurrected an
\* entity, which is in no group, while a group with a component has
\* members no more.
C31_Witness ==
    /\ last.op = "revert"
    /\ observing
    /\ \E e \in returned \ entities, f \in entities, g \in CreatedGroups :
          /\ Count(events, EntityRemovedFromGroup(e, g)) > 0
          /\ Count(events, EntitySpawned(f)) = 1
          /\ GroupsOf(f) = {}
          /\ groupComponents[g] # EmptyMap
          /\ groupEntities[g] = {}
\* C32: a revert of a full snapshot leaves an entity captured with an
\* empty table not live, with no EntitySpawned, if it is not live; if it
\* is live, the entity stays live and its own table is empty afterwards.
C32_EmptyNotResurrected ==
    [][Called("revert") =>
          LET snapshot == snapshots[last'.snap]
          IN ~PartialSnapshot(last'.snap) =>
                \A e \in DOMAIN snapshot.entityStates :
                    DOMAIN snapshot.entityStates[e] = {} =>
                        /\ Count(events', EntitySpawned(e)) = 0
                        /\ IF e \in entities
                           THEN e \in entities' /\ components'[e] = EmptyMap
                           ELSE e \notin entities' /\ e \notin DOMAIN components']_vars

\* A full revert has left one entity captured without components dead and
\* has taken a component from another, which is live with an empty table.
C32_Witness ==
    /\ last.op = "revert"
    /\ observing
    /\ ~PartialSnapshot(last.snap)
    /\ \E e, f \in DOMAIN snapshots[last.snap].entityStates :
          /\ DOMAIN snapshots[last.snap].entityStates[e] = {}
          /\ DOMAIN snapshots[last.snap].entityStates[f] = {}
          /\ e \notin entities
          /\ f \in entities /\ components[f] = EmptyMap
          /\ \E c \in ComponentIds : Count(events, ComponentRemoved(f, c)) = 1
\* C33: the snapshot a call of snapshot returns holds, without a filter or
\* with an empty one, every live entity with its whole own table; with a
\* filter that lists ids, every live entity whose own table has a listed
\* id, with exactly the listed components of its own table, and no other
\* entity; what an entity has through a group only is not in it.
C33_CaptureContent ==
    [][Called("snapshot") =>
          LET snapshot == snapshots'[nextSnapshotId]
              listed == ListIds(snapshot.components.ids)
          IN IF listed = {}
             THEN /\ DOMAIN snapshot.entityStates = entities
                  /\ \A e \in entities : snapshot.entityStates[e] = components[e]
             ELSE /\ DOMAIN snapshot.entityStates = {e \in entities : OwnKeys(e) \cap listed # {}}
                  /\ \A e \in DOMAIN snapshot.entityStates :
                        snapshot.entityStates[e] = [c \in OwnKeys(e) \cap listed |-> components[e][c]]]_vars

\* A snapshot with a filter has left out a live entity that has a listed
\* component through a group only, and holds of another entity the listed
\* component and not the other one it owns.
C33_Witness ==
    /\ last.op = "snapshot"
    /\ PartialSnapshot(nextSnapshotId - 1)
    /\ \E e, f \in entities : \E c \in FilterOf(nextSnapshotId - 1) :
          /\ has(e, c) /\ ~OwnHas(e, c) /\ OwnKeys(e) # {}
          /\ e \notin DOMAIN snapshots[nextSnapshotId - 1].entityStates
          /\ f \in DOMAIN snapshots[nextSnapshotId - 1].entityStates
          /\ DOMAIN snapshots[nextSnapshotId - 1].entityStates[f] = {c}
          /\ OwnKeys(f) \ {c} # {}
\* C34: q.with(ids) and q.without(ids) return q, make no new query, and
\* leave q with the ids appended to its required, respectively excluded,
\* list and every other query as it was; q.each visits the live entities
\* whose own table, at the time of the call, has every required and no
\* excluded id of q.
C34_QueryInPlace ==
    [][/\ Called("query.with") =>
             /\ last'.returns = last'.query
             /\ queries' = [queries EXCEPT ![last'.query].required = @ \o last'.list]
       /\ Called("query.without") =>
             /\ last'.returns = last'.query
             /\ queries' = [queries EXCEPT ![last'.query].excluded = @ \o last'.list]
       /\ Called("query.each") =>
             /\ queries' = queries
             /\ last'.visited = scanEntities(queries[last'.query].required,
                                             queries[last'.query].excluded)]_vars

\* The first of two queries, extended by with to two required ids, has
\* visited an entity while an entity that lost a component is live.
C34_Witness ==
    /\ last.op = "query.each"
    /\ last.query = 1
    /\ last.visited # {}
    /\ Len(queries) = 2
    /\ Len(queries[1].required) = 2
    /\ queries[2].excluded # <<>>
    /\ entities \ last.visited # {}
\* What a query gave when snapshot s was taken: the entities then live
\* whose own table then had every required and no excluded id.
CapturedMatch(s, required, excluded) ==
    {entity \in captured[s].valid :
        /\ \A i \in 1..Len(required) : required[i] \in DOMAIN captured[s].own[entity]
        /\ ~\E i \in 1..Len(excluded) : excluded[i] \in DOMAIN captured[s].own[entity]}

\* C35: right after a revert to a full snapshot, every query (every
\* required list with every excluded list) visits the entities it visited
\* when the snapshot was taken.
C35_QueriesAsAtCapture ==
    [][(Called("revert") /\ ~PartialSnapshot(last'.snap)) =>
          \A required \in QueryLists, excluded \in QueryLists :
              eachEntities(required, excluded)'
                  = CapturedMatch(last'.snap, required, excluded)]_vars
\* C36: a group that is not registered in the world is given by neither
\* getGroupsWithComponent nor getGroupsForEntity, so every group of the
\* reverse index is registered, and get and has of an entity answer from
\* its own table and the tables of registered groups only.
C36_RemovedGroupInert ==
    /\ \A c \in GroupComponentIds : getGroupsWithComponent(c) \subseteq groups
    /\ \A e \in EntityIds : getGroupsForEntity(e) \subseteq groups
    /\ \A e \in DOMAIN entityToGroups : entityToGroups[e] \subseteq groups
    /\ \A e \in EntityIds, c \in GroupComponentIds :
          /\ has(e, c) =>
                \/ OwnHas(e, c)
                \/ \E g \in groups : c \in DOMAIN groupComponents[g]
          /\ \A r \in get(e, c) : r.found =>
                \/ OwnHas(e, c) /\ r.value = components[e][c]
                \/ \E g \in groups : /\ c \in DOMAIN groupComponents[g]
                                      /\ r.value = groupComponents[g][c]

\* C36, get and has alone: a live entity gets a value from the table of a
\* group that is not registered.
C36_ValueFromRemovedGroup ==
    \E e \in entities, c \in GroupComponentIds :
        /\ ~OwnHas(e, c)
        /\ has(e, c)
        /\ \A g \in groups : c \notin DOMAIN groupComponents[g]
\* C37: every member of a registered group and every key of the reverse
\* index is a live entity, and the entity a spawn has just returned is in
\* no group and has no component, neither of its own nor through a group.
C37_MembersAreLive ==
    /\ \A g \in groups : groupEntities[g] \subseteq entities
    /\ DOMAIN entityToGroups \subseteq entities
    /\ last.op = "spawn" =>
          /\ getGroupsForEntity(nextEntityId - 1) = {}
          /\ \A c \in ComponentIds : ~has(nextEntityId - 1, c)

\* C37, the spawned entity alone: spawn has returned an entity that has a
\* component through a group.
C37_SpawnedIntoGroup ==
    /\ last.op = "spawn"
    /\ \E c \in ComponentIds : has(nextEntityId - 1, c)
\* C38: in every state entityToArchetype maps an entity to a signature if
\* and only if the entity is in the bucket archetypeToEntities has for that
\* signature; so no entity is in two buckets and every bucket member has
\* an entry in entityToArchetype.
C38_ArchetypeMapsAgree ==
    /\ \A e \in DOMAIN entityToArchetype :
          /\ entityToArchetype[e] \in DOMAIN archetypeToEntities
          /\ e \in archetypeToEntities[entityToArchetype[e]]
    /\ \A sig \in DOMAIN archetypeToEntities :
          \A e \in archetypeToEntities[sig] :
              e \in DOMAIN entityToArchetype /\ entityToArchetype[e] = sig

\* A remove has taken a component away while the index has two buckets
\* and files two entities, one of them live with one component, under
\* different signatures.
C38_Witness ==
    /\ last = Call("remove", "true")
    /\ \E e1 \in entities, e2 \in DOMAIN entityToArchetype :
          /\ e1 # e2
          /\ e1 \in DOMAIN entityToArchetype
          /\ Cardinality(DOMAIN components[e1]) = 1
          /\ entityToArchetype[e1] # entityToArchetype[e2]
          /\ Cardinality(DOMAIN archetypeToEntities) = 2
====
